---- MODULE Spec2Model ----
(***************************************************************************)
(* Accounting reconciliation (acct-recon).                                 *)
(*                                                                         *)
(* Two matching strategies are modelled:                                   *)
(*   - the cross-file precedence merge, reconcileByTrackingPreferPO        *)
(*     (specification SpecMerge), and its handler from the form on, with   *)
(*     the three files parsed under Promise.all (SpecUpload);              *)
(*   - the truth-source verification handler, POST + reconcileOne          *)
(*     (specification SpecVerify), and the same request sent twice         *)
(*     (SpecRerun).                                                        *)
(* The upload page's submit() is specification SpecPage.                   *)
(*                                                                         *)
(* Strings that the code inspects character by character (tracking cells,  *)
(* date strings) are sequences of one-character strings.                   *)
(***************************************************************************)
EXTENDS Integers, Sequences, FiniteSets, TLC

\* ------------------------------------------------------------------------
\* Bounds of the model
\* ------------------------------------------------------------------------

\* Rows over the three uploaded files of one cross-file request.
MaxMergeRows == 3

\* ------------------------------------------------------------------------
\* Strings
\* ------------------------------------------------------------------------

\* JavaScript null / undefined of a string-valued field.
Null == <<"null">>

Digits == {"0", "1", "2", "3", "4", "5", "6", "7", "8", "9"}

UpperLetters == {"A", "Z"}

LowerLetters == {"a", "z"}

\* [A-Za-z0-9]
IsAlnum(c) == c \in Digits \cup UpperLetters \cup LowerLetters

\* String.prototype.toUpperCase on one character.
ToUpperChar(c) ==
  CASE c = "a" -> "A"
    [] c = "z" -> "Z"
    [] OTHER -> c

\* normTracking: s.replace(/[^A-Za-z0-9]/g, "").toUpperCase(), "" for a
\* falsy argument.
NormTracking(s) ==
  IF s = Null \/ s = <<>> THEN <<>>
  ELSE LET kept == SelectSeq(s, IsAlnum)
       IN [i \in 1..Len(kept) |-> ToUpperChar(kept[i])]

\* Collation rank of one character: punctuation before digits before letters,
\* a lower-case letter right before its upper-case form.
CharRank(c) ==
  CASE c = " " -> 0
    [] c = "-" -> 1
    [] c = "." -> 2
    [] c = "0" -> 10
    [] c = "1" -> 11
    [] c = "2" -> 12
    [] c = "3" -> 13
    [] c = "4" -> 14
    [] c = "5" -> 15
    [] c = "6" -> 16
    [] c = "7" -> 17
    [] c = "8" -> 18
    [] c = "9" -> 19
    [] c = "a" -> 30
    [] c = "A" -> 31
    [] c = "z" -> 80
    [] c = "Z" -> 81
    [] OTHER -> 99

\* a.localeCompare(b) on two strings: -1, 0 or 1.
RECURSIVE LocaleCompare(_, _)
LocaleCompare(a, b) ==
  IF a = <<>> /\ b = <<>> THEN 0
  ELSE IF a = <<>> THEN -1
  ELSE IF b = <<>> THEN 1
  ELSE IF CharRank(Head(a)) < CharRank(Head(b)) THEN -1
  ELSE IF CharRank(Head(a)) > CharRank(Head(b)) THEN 1
  ELSE LocaleCompare(Tail(a), Tail(b))

\* A number-or-null value (dayDelta, the day of a Date) is the set of its
\* values: empty for null.
NoDayDelta == {}

\* x || "" on a string-or-null value.
OrEmpty(x) == IF x = Null THEN <<>> ELSE x

\* !!x on a string-or-null value.
Truthy(x) == x # Null /\ x # <<>>

\* ------------------------------------------------------------------------
\* Cross-file precedence merge
\* ------------------------------------------------------------------------

\* One carrier number as the carrier prints it, and as a spreadsheet may hold
\* it: lower case, with a space, a hyphen and a dot.
Tracking1Z9 == <<"1", "Z", "9">>

Tracking1Z9Spelled == <<"1", "z", " ", "-", ".", "9">>

\* Raw tracking cells of an uploaded row: no cell, the two spellings of one
\* number, and another number.
TrackingCells == { Null, Tracking1Z9, Tracking1Z9Spelled, <<"a", "-", "1">> }

\* Normalized dates of an uploaded row (yyyy-mm-dd), or none.
Date0105 == <<"2", "0", "2", "4", "-", "0", "1", "-", "0", "5">>

Date0107 == <<"2", "0", "2", "4", "-", "0", "1", "-", "0", "7">>

DateCells == {Null, Date0105, Date0107}

\* The document number in the k-th row of the file of one role.
DocNumber(mode, k) == <<mode, "-", ToString(k)>>

\* One UploadRow of the file with role mode, at 1-based position k.
MkUploadRow(mode, k, tracking, date) ==
  [ row |-> k,
    tracking |-> tracking,
    poNumber |-> IF mode = "PO" THEN DocNumber(mode, k) ELSE Null,
    shipDocNumber |-> IF mode = "ShipDocs" THEN DocNumber(mode, k) ELSE Null,
    vendor |-> Null,
    customer |-> Null,
    date |-> date,
    sourceMode |-> mode ]

\* The tracking number and date of one parsed row. A row without a tracking
\* number is given no date: the merge skips it before it reads any date.
UploadCells ==
  ((TrackingCells \ {Null}) \X DateCells) \cup {<<Null, Null>>}

\* The rows parseUploadToRows returns for a file of n rows with role mode.
UploadFiles(mode, n) ==
  { [k \in 1..n |-> MkUploadRow(mode, k, c[k][1], c[k][2])] :
      c \in [1..n -> UploadCells] }

\* x || y on string-or-null values.
Or(x, y) == IF Truthy(x) THEN x ELSE y

\* The comparator of the three sorts:
\* (a, b) => (a.date || "").localeCompare(b.date || "").
ByDate(a, b) == LocaleCompare(OrEmpty(a.date), OrEmpty(b.date))

\* Faulty variant of InsertSorted: x goes before the elements it compares equal
\* to, so that among equal dates the last row of the input comes first.
RECURSIVE InsertSortedBeforeEquals(_, _)
InsertSortedBeforeEquals(sorted, x) ==
  IF sorted = <<>> THEN <<x>>
  ELSE IF LocaleCompare(OrEmpty(x.date), OrEmpty(Head(sorted).date)) <= 0
    THEN <<x>> \o sorted
  ELSE <<Head(sorted)>> \o InsertSortedBeforeEquals(Tail(sorted), x)

\* Array.prototype.sort is stable: x goes after every element that does not
\* compare greater than it.
RECURSIVE InsertSorted(_, _)
InsertSorted(sorted, x) ==
  IF sorted = <<>> THEN <<x>>
  ELSE IF ByDate(x, Head(sorted)) < 0 THEN <<x>> \o sorted
  ELSE <<Head(sorted)>> \o InsertSorted(Tail(sorted), x)

RECURSIVE SortByDate(_)
SortByDate(rows) ==
  IF rows = <<>> THEN <<>>
  ELSE InsertSorted(SortByDate(SubSeq(rows, 1, Len(rows) - 1)), rows[Len(rows)])

\* bucket.xs?.find(r => !!r.date)?.date, Null for undefined.
RECURSIVE FindDate(_)
FindDate(rows) ==
  IF rows = <<>> THEN Null
  ELSE IF Truthy(Head(rows).date) THEN Head(rows).date
  ELSE FindDate(Tail(rows))

\* Faulty variant of Add: it keys the Map by the tracking cell as uploaded.
AddByRawCell(byTracking, r) ==
  LET k == OrEmpty(r.tracking)
      at == {i \in 1..Len(byTracking) : byTracking[i].k = k}
      slot == IF at = {} THEN [k |-> k, po |-> <<>>, ship |-> <<>>, ups |-> <<>>]
              ELSE byTracking[CHOOSE i \in at : TRUE]
      filled == IF r.sourceMode = "PO" THEN [slot EXCEPT !.po = @ \o <<r>>]
                ELSE IF r.sourceMode = "ShipDocs"
                  THEN [slot EXCEPT !.ship = @ \o <<r>>]
                ELSE [slot EXCEPT !.ups = @ \o <<r>>]
  IN IF k = <<>> THEN byTracking
     ELSE IF at = {} THEN Append(byTracking, filled)
     ELSE [byTracking EXCEPT ![CHOOSE i \in at : TRUE] = filled]

\* The closure add of reconcileByTrackingPreferPO on the Map byTracking, kept
\* as the sequence of its entries in insertion order.
Add(byTracking, r) ==
  LET k == NormTracking(OrEmpty(r.tracking))
      at == {i \in 1..Len(byTracking) : byTracking[i].k = k}
      slot == IF at = {} THEN [k |-> k, po |-> <<>>, ship |-> <<>>, ups |-> <<>>]
              ELSE byTracking[CHOOSE i \in at : TRUE]
      filled == IF r.sourceMode = "PO" THEN [slot EXCEPT !.po = @ \o <<r>>]
                ELSE IF r.sourceMode = "ShipDocs"
                  THEN [slot EXCEPT !.ship = @ \o <<r>>]
                ELSE [slot EXCEPT !.ups = @ \o <<r>>]
  IN IF k = <<>> THEN byTracking
     ELSE IF at = {} THEN Append(byTracking, filled)
     ELSE [byTracking EXCEPT ![CHOOSE i \in at : TRUE] = filled]

\* rows.forEach(add)
RECURSIVE ForEachAdd(_, _)
ForEachAdd(byTracking, rows) ==
  IF rows = <<>> THEN byTracking
  ELSE ForEachAdd(Add(byTracking, Head(rows)), Tail(rows))

\* Faulty variant of PoResult: it shows the document number of a ShipDocs row of
\* the bucket and prefers the borrowed date.
PoResultFromLowerSources(bucket) ==
  LET pick == SortByDate(bucket.po)[1]
      fallbackDate == Or(FindDate(bucket.ups), Or(FindDate(bucket.ship), Null))
  IN [ row |-> <<"trk:">> \o bucket.k,
       sourceMode |-> "PO-file",
       chosenMode |-> "PO",
       orderNumber |-> IF bucket.ship # <<>> THEN bucket.ship[1].shipDocNumber
                       ELSE Or(pick.poNumber, <<"(missing PO#)">>),
       partyUpload |-> Or(pick.vendor, Or(pick.customer, Null)),
       trackingUpload |-> bucket.k,
       assertedDate |-> Or(fallbackDate, pick.date),
       verdict |-> "MATCH_PO",
       reason |-> "Tracking appears on PO; ShipDocs/UPS duplicates suppressed",
       dayDelta |-> NoDayDelta,
       poVerdict |-> "match",
       shipVerdict |-> Null ]

\* The DetailRow pushed for a bucket that holds PO rows.
PoResult(bucket) ==
  LET pick == SortByDate(bucket.po)[1]
      fallbackDate == Or(FindDate(bucket.ups), Or(FindDate(bucket.ship), Null))
  IN [ row |-> <<"trk:">> \o bucket.k,
       sourceMode |-> "PO-file",
       chosenMode |-> "PO",
       orderNumber |-> Or(pick.poNumber, <<"(missing PO#)">>),
       partyUpload |-> Or(pick.vendor, Or(pick.customer, Null)),
       trackingUpload |-> bucket.k,
       assertedDate |-> Or(pick.date, fallbackDate),
       verdict |-> "MATCH_PO",
       reason |-> "Tracking appears on PO; ShipDocs/UPS duplicates suppressed",
       dayDelta |-> NoDayDelta,
       poVerdict |-> "match",
       shipVerdict |-> Null ]

\* The DetailRow pushed for a bucket with ShipDocs rows and no PO row.
ShipResult(bucket) ==
  LET pick == SortByDate(bucket.ship)[1]
      fallbackDate == Or(FindDate(bucket.ups), Null)
  IN [ row |-> <<"trk:">> \o bucket.k,
       sourceMode |-> "ShipDocs-file",
       chosenMode |-> "ShipDocs",
       orderNumber |-> Or(pick.shipDocNumber, <<"(missing ShipDoc#)">>),
       partyUpload |-> Or(pick.customer, Or(pick.vendor, Null)),
       trackingUpload |-> bucket.k,
       assertedDate |-> Or(pick.date, fallbackDate),
       verdict |-> "MATCH_SHIPDOCS",
       reason |-> "Tracking appears on ShipDocs; no PO found for this tracking",
       dayDelta |-> NoDayDelta,
       poVerdict |-> Null,
       shipVerdict |-> "match" ]

\* Faulty variant of UpsResult: it reports a UPS-only bucket under the order number and verdict of
\* the branch above it.
UpsResultAsShipDocs(bucket) ==
  LET u == SortByDate(bucket.ups)[1]
  IN [ row |-> <<"trk:">> \o bucket.k,
       sourceMode |-> "UPS-file",
       chosenMode |-> "UPS",
       orderNumber |-> Or(u.shipDocNumber, <<"(missing ShipDoc#)">>),
       partyUpload |-> Or(u.customer, Or(u.vendor, Null)),
       trackingUpload |-> bucket.k,
       assertedDate |-> Or(u.date, Null),
       verdict |-> "MATCH_SHIPDOCS",
       reason |-> "Tracking not found on PO or ShipDocs",
       dayDelta |-> NoDayDelta,
       poVerdict |-> Null,
       shipVerdict |-> Null ]

\* The DetailRow pushed for a bucket that holds UPS rows only.
UpsResult(bucket) ==
  LET u == SortByDate(bucket.ups)[1]
  IN [ row |-> <<"trk:">> \o bucket.k,
       sourceMode |-> "UPS-file",
       chosenMode |-> "UPS",
       orderNumber |-> <<>>,
       partyUpload |-> Or(u.customer, Or(u.vendor, Null)),
       trackingUpload |-> bucket.k,
       assertedDate |-> Or(u.date, Null),
       verdict |-> "UNMATCHED_UPS",
       reason |-> "Tracking not found on PO or ShipDocs",
       dayDelta |-> NoDayDelta,
       poVerdict |-> Null,
       shipVerdict |-> Null ]

\* Faulty variant of BucketResult: it tests the ShipDocs list before the PO list.
BucketResultShipDocsFirst(bucket) ==
  IF bucket.ship # <<>> THEN <<ShipResult(bucket)>>
  ELSE IF bucket.po # <<>> THEN <<PoResult(bucket)>>
  ELSE IF bucket.ups # <<>> THEN <<UpsResult(bucket)>>
  ELSE <<>>

\* The body of the loop over byTracking.entries(): what one bucket pushes.
BucketResult(bucket) ==
  IF bucket.po # <<>> THEN <<PoResult(bucket)>>
  ELSE IF bucket.ship # <<>> THEN <<ShipResult(bucket)>>
  ELSE IF bucket.ups # <<>> THEN <<UpsResult(bucket)>>
  ELSE <<>>

RECURSIVE BucketResults(_)
BucketResults(byTracking) ==
  IF byTracking = <<>> THEN <<>>
  ELSE BucketResult(Head(byTracking)) \o BucketResults(Tail(byTracking))

\* reconcileByTrackingPreferPO(poRows, shipRows, upsRows)
reconcileByTrackingPreferPO(po, ship, ups) ==
  BucketResults(ForEachAdd(ForEachAdd(ForEachAdd(<<>>, po), ship), ups))

\* buildSummary(details)
buildSummary(details) ==
  LET n(v) == Cardinality({j \in 1..Len(details) : details[j].verdict = v})
  IN [ totalRowsReturned |-> Len(details),
       counts |-> [ MATCH_PO |-> n("MATCH_PO"),
                    MATCH_SHIPDOCS |-> n("MATCH_SHIPDOCS"),
                    UNMATCHED_UPS |-> n("UNMATCHED_UPS") ] ]

\* ------------------------------------------------------------------------
\* Truth-source verification: parsing
\* ------------------------------------------------------------------------

\* Rows in the files of one verification request (all files together).
MaxVerifyRows == 2

\* A Date is the set holding its UTC day number within 2024; null is {}.
NoDate == {}

Feb01 == {32}

Feb03 == {34}

Iso0201 == <<"2", "0", "2", "4", "-", "0", "2", "-", "0", "1">>

Iso0203 == <<"2", "0", "2", "4", "-", "0", "2", "-", "0", "3">>

\* Faulty variant of DateParse: text that is no date is read as some date.
DateParseGuesses(s) ==
  CASE s = Iso0203 -> Feb03
    [] OTHER -> Feb01

\* Date.parse of a date cell, as a Date or null (NaN).
DateParse(s) ==
  CASE s = Iso0201 -> Feb01
    [] s = Iso0203 -> Feb03
    [] OTHER -> NoDate

\* d.toISOString().slice(0, 10)
ToISODate(d) ==
  CASE d = Feb01 -> Iso0201
    [] d = Feb03 -> Iso0203

\* String.prototype.trim
RECURSIVE TrimStart(_)
TrimStart(s) ==
  IF s # <<>> /\ Head(s) = " " THEN TrimStart(Tail(s)) ELSE s

RECURSIVE TrimEnd(_)
TrimEnd(s) ==
  IF s # <<>> /\ s[Len(s)] = " " THEN TrimEnd(SubSeq(s, 1, Len(s) - 1)) ELSE s

Trim(s) == TrimEnd(TrimStart(s))

\* norm(v): (v ?? "").toString().trim()
norm(v) == Trim(OrEmpty(v))

\* s.replace(/\s+/g, " ")
RECURSIVE CollapseSpaces(_)
CollapseSpaces(s) ==
  IF Len(s) < 2 THEN s
  ELSE IF s[1] = " " /\ s[2] = " " THEN CollapseSpaces(Tail(s))
  ELSE <<Head(s)>> \o CollapseSpaces(Tail(s))

\* s.toUpperCase()
ToUpperCase(s) == [i \in 1..Len(s) |-> ToUpperChar(s[i])]

\* x || undefined on a string
OrUndefined(x) == IF Truthy(x) THEN x ELSE Null

\* parseDateLike(v) on a text cell
parseDateLike(v) ==
  IF v = Null \/ v = <<>> THEN NoDate
  ELSE IF norm(v) = <<>> THEN NoDate
  ELSE DateParse(norm(v))

\* The cells of one spreadsheet row under the order, tracking, party and date
\* headers of its file.
PartyAcme == <<"ACME">>

PartyOther == <<"Other">>

\* A date cell that is no date.
NotADate == <<"n", "/", "a">>

RawRows ==
  { \* no identifier at all: only a party name
    [order |-> Null, tracking |-> Null, party |-> PartyAcme, date |-> Null],
    \* an order number and a tracking number, with a date
    [order |-> <<" ", "P", "O", " ", " ", "2">>, tracking |-> Tracking1Z9,
     party |-> PartyAcme, date |-> Iso0201],
    \* a tracking number only, with a date cell that cannot be parsed
    [order |-> Null, tracking |-> Tracking1Z9Spelled, party |-> PartyOther,
     date |-> NotADate] }

\* An uploaded file: none in the form field, one the reader throws on, or the
\* rows of its first sheet.
NoFile == [kind |-> "none"]

BadFile == [kind |-> "unreadable"]

SheetFile(rws) == [kind |-> "sheet", rows |-> rws]

FilesOfAtMost(n) ==
  {NoFile, BadFile} \cup
    UNION { {SheetFile(rws) : rws \in [1..m -> RawRows]} : m \in 0..n }

FileRowCount(f) == IF f.kind = "sheet" THEN Len(f.rows) ELSE 0

\* The loop body of parseFile for one raw row: the UploadRows it pushes.
ParseRow(raw) ==
  LET orderNumber0 == OrUndefined(norm(raw.order))
      orderNumber == IF Truthy(orderNumber0)
                       THEN Trim(CollapseSpaces(orderNumber0)) ELSE Null
      trackingNumber0 == OrUndefined(norm(raw.tracking))
      trackingNumber == IF Truthy(trackingNumber0)
                          THEN ToUpperCase(trackingNumber0) ELSE Null
      partyName == OrUndefined(norm(raw.party))
      assertedDate == parseDateLike(raw.date)
  IN IF ~Truthy(orderNumber) /\ ~Truthy(trackingNumber) THEN <<>>
     ELSE << [ orderNumber |-> orderNumber,
               partyName |-> partyName,
               trackingNumber |-> trackingNumber,
               assertedDate |-> assertedDate ] >>

RECURSIVE ParseRows(_)
ParseRows(rws) ==
  IF rws = <<>> THEN <<>>
  ELSE ParseRow(Head(rws)) \o ParseRows(Tail(rws))

MissingColumns == "Missing required column(s): orderNumber or trackingNumber."

\* parseFile(file): the rows it returns, or the error it throws.
parseFile(f) ==
  IF f.kind = "unreadable" THEN [ok |-> FALSE, message |-> "Unsupported file"]
  ELSE IF f.rows = <<>> THEN [ok |-> TRUE, rows |-> <<>>]
  ELSE IF ParseRows(f.rows) = <<>> THEN [ok |-> FALSE, message |-> MissingColumns]
  ELSE [ok |-> TRUE, rows |-> ParseRows(f.rows)]

\* rows.push({ ...r, sourceMode: tag }) for every parsed row
Tagged(rws, tag) ==
  [k \in 1..Len(rws) |->
     [ orderNumber |-> rws[k].orderNumber,
       partyName |-> rws[k].partyName,
       trackingNumber |-> rws[k].trackingNumber,
       assertedDate |-> rws[k].assertedDate,
       sourceMode |-> tag ]]

\* ------------------------------------------------------------------------
\* Truth-source verification: lookups, decision, scoring
\* ------------------------------------------------------------------------

\* The truth source never answers: axios.get is called without a timeout, so
\* its promise stays pending.
Silent == [kind |-> "silent"]

\* What the truth source answers to getOrder: the request is rejected (network
\* error, missing token), the body is empty, it is an order record, or no
\* answer ever comes.
OrderAnswers ==
  { Silent,
    [kind |-> "reject"],
    [kind |-> "empty"],
    [kind |-> "order", partyName |-> PartyAcme] }

\* The documents of an activity answer: each has a date and packages.
OneDoc(date) ==
  << [date |-> date, packages |-> << [trackingNumber |-> <<"1", "z", "-", "9">>] >>] >>

\* What the truth source answers to getActivity and findByTracking: rejected,
\* an empty body, a body whose docs cannot be iterated, or documents.
ActivityAnswers ==
  { [kind |-> "reject"],
    [kind |-> "empty"],
    [kind |-> "malformed"],
    [kind |-> "docs", docs |-> <<>>, partyName |-> Null],
    [kind |-> "docs", docs |-> OneDoc(Iso0201), partyName |-> PartyAcme],
    [kind |-> "docs", docs |-> OneDoc(Iso0203), partyName |-> PartyAcme] }

\* What getActivity may meet: the answers above, or none at all.
GetActivityAnswers == ActivityAnswers \cup {Silent}

NotIterable == "activity.docs is not iterable"

\* s.toUpperCase().replace(/\s|-/g, "")
StripSpacesAndHyphens(s) ==
  SelectSeq(ToUpperCase(s), LAMBDA c : c \notin {" ", "-"})

\* The inner loop of extractPackages over doc.packages.
RECURSIVE DocPackages(_, _)
DocPackages(date, pkgs) ==
  IF pkgs = <<>> THEN <<>>
  ELSE LET t == StripSpacesAndHyphens(OrEmpty(Head(pkgs).trackingNumber))
       IN (IF t # <<>> THEN << [tracking |-> t, date |-> date] >> ELSE <<>>)
            \o DocPackages(date, Tail(pkgs))

\* The outer loop of extractPackages over activity.docs.
RECURSIVE DocsPackages(_)
DocsPackages(docs) ==
  IF docs = <<>> THEN <<>>
  ELSE DocPackages(Head(docs).date, Head(docs).packages)
         \o DocsPackages(Tail(docs))

\* activity ? extractPackages(activity) : [] on a well-formed answer; a
\* rejected request was turned into null by .catch(() => null).
extractPackages(answer) ==
  IF answer.kind = "docs" THEN DocsPackages(answer.docs) ELSE <<>>

\* extractParty(activity)
extractParty(answer) ==
  IF answer.kind = "docs" THEN answer.partyName ELSE Null

\* Days the asserted date may differ from the package date.
DateToleranceDays == 1

Abs(n) == IF n < 0 THEN -n ELSE n

\* The day differences between the asserted date and the dated packages.
DayDeltas(assertedDate, pkgs) ==
  { Abs(a - b) : <<a, b>> \in
      assertedDate \X UNION { DateParse(pkgs[j].date) : j \in 1..Len(pkgs) } }

\* decide(...): the verdict, reason and dayDelta of one interpretation.
decide(mode, partyUpload, trackingUpload, assertedDate, orderExists, pkgs, partyOT) ==
  LET deltas == DayDeltas(assertedDate, pkgs)
      dayDelta == IF deltas = {} THEN NoDayDelta
                  ELSE {CHOOSE d \in deltas : \A e \in deltas : d <= e}
      dateOff == \E d \in dayDelta : d > DateToleranceDays
      partyOff == Truthy(partyUpload) /\ Truthy(partyOT) /\ partyUpload # partyOT
  IN IF ~orderExists
       THEN [verdict |-> "NOT_FOUND",
             reason |-> IF mode = "PO" THEN "no such PO" ELSE "no such SO",
             dayDelta |-> NoDayDelta]
     ELSE IF dateOff \/ partyOff
       THEN [verdict |-> "MISMATCH",
             reason |-> IF dateOff
                          THEN (IF mode = "PO" THEN "receipt date differs"
                                ELSE "shipment date differs")
                          ELSE (IF mode = "PO" THEN "vendor differs"
                                ELSE "customer differs"),
             dayDelta |-> dayDelta]
     ELSE [verdict |-> "OK",
           reason |-> IF mode = "PO" THEN "PO verified" ELSE "SO verified",
           dayDelta |-> dayDelta]

\* SCORE[verdict] ?? 0
SCORE(verdict) ==
  CASE verdict = "OK" -> 3
    [] verdict = "MISMATCH" -> 2
    [] verdict = "NOT_FOUND" -> 1
    [] verdict = "ERROR" -> 0
    [] OTHER -> 0

\* The tail of reconcileOne: { mode, verdict, reason, dayDelta } of decide's
\* answer.
Decided(mode, r, exists, pkgs, party) ==
  LET ver == decide(mode, r.partyName, r.trackingNumber, r.assertedDate,
                    exists, pkgs, party)
  IN [mode |-> mode, verdict |-> ver.verdict, reason |-> ver.reason,
      dayDelta |-> ver.dayDelta]

\* Faulty variant of Pick: it never takes the cross-checked interpretation.
PickPreferred(resPref, resOther) == resPref

\* Faulty variant of Pick: it compares with >=, so a tie goes to the interpretation evaluated
\* second.
PickOnTieOther(resPref, resOther) ==
  IF SCORE(resOther.verdict) >= SCORE(resPref.verdict) THEN resOther ELSE resPref

\* const pick = SCORE[resOther.verdict] > SCORE[resPref.verdict] ? resOther : resPref
Pick(resPref, resOther) ==
  IF SCORE(resOther.verdict) > SCORE(resPref.verdict) THEN resOther ELSE resPref

\* r.sourceMode ?? "PO"
Prefer(r) == IF r.sourceMode = "" THEN "PO" ELSE r.sourceMode

Other(prefer) == IF prefer = "PO" THEN "SO" ELSE "PO"

\* r.assertedDate?.toISOString()?.slice(0, 10) ?? ""
DateOut(d) == IF d = NoDate THEN <<>> ELSE ToISODate(d)

\* Faulty variant of PickedDetail: poVerdict is the verdict evaluated first and
\* soVerdict the one evaluated second.
PickedDetailByPosition(n, r, resPref, resOther) ==
  LET pick == Pick(resPref, resOther)
  IN [ row |-> n,
       sourceMode |-> r.sourceMode,
       chosenMode |-> pick.mode,
       orderNumber |-> OrEmpty(r.orderNumber),
       partyUpload |-> OrEmpty(r.partyName),
       trackingUpload |-> OrEmpty(r.trackingNumber),
       assertedDate |-> DateOut(r.assertedDate),
       verdict |-> pick.verdict,
       reason |-> pick.reason,
       dayDelta |-> pick.dayDelta,
       poVerdict |-> resPref.verdict,
       soVerdict |-> resOther.verdict ]

\* The object pushed to details in the try block.
PickedDetail(n, r, resPref, resOther) ==
  LET pick == Pick(resPref, resOther)
  IN [ row |-> n,
       sourceMode |-> r.sourceMode,
       chosenMode |-> pick.mode,
       orderNumber |-> OrEmpty(r.orderNumber),
       partyUpload |-> OrEmpty(r.partyName),
       trackingUpload |-> OrEmpty(r.trackingNumber),
       assertedDate |-> DateOut(r.assertedDate),
       verdict |-> pick.verdict,
       reason |-> pick.reason,
       dayDelta |-> pick.dayDelta,
       poVerdict |-> IF resPref.mode = "PO" THEN resPref.verdict ELSE resOther.verdict,
       soVerdict |-> IF resPref.mode = "SO" THEN resPref.verdict ELSE resOther.verdict ]

\* The object pushed to details in the catch block.
ErrorDetail(n, r, message) ==
  [ row |-> n,
    sourceMode |-> r.sourceMode,
    chosenMode |-> "",
    orderNumber |-> OrEmpty(r.orderNumber),
    partyUpload |-> OrEmpty(r.partyName),
    trackingUpload |-> OrEmpty(r.trackingNumber),
    assertedDate |-> DateOut(r.assertedDate),
    verdict |-> "ERROR",
    reason |-> message ]

\* counts[v] = (counts[v] ?? 0) + 1
Counted(counts, v) ==
  IF v \in DOMAIN counts THEN [counts EXCEPT ![v] = @ + 1]
  ELSE [w \in DOMAIN counts \cup {v} |-> IF w = v THEN 1 ELSE counts[w]]

\* ------------------------------------------------------------------------
\* State
\* ------------------------------------------------------------------------

VARIABLES
  \* cross-file request: the rows parsed from the three files, the position
  \* of the handler, and the details it computed
  poRows, shipRows, upsRows, mergePc, mergeDetails, mergeResponse,
  \* the files of its form by role, and the roles whose promise in Promise.all
  \* is fulfilled
  uploads, settled,
  \* verification request: which handler serves it ("single": one form field
  \* file; "dual": poFile and soFile) and the files of its form
  variant, form,
  \* the handler: its position, the parsed rows, the loop index (1-based), the
  \* interpretation under way ("pref" or "other"), details, counts, response
  vpc, rows, i, phase, details, counts, response,
  \* the frame of reconcileOne across its awaits, both results, the exception
  \* caught for the row
  orderExists, partyOT, resPref, resOther, err,
  \* history: the lookups issued for the row under way, the interpretations of
  \* it that had a lookup rejected, the rows that threw, what reconcileOne
  \* passed to decide for the row under way
  calls, failedModes, thrown, decided,
  \* the lookups sent to the truth source and not yet answered
  pending,
  \* the same request sent twice: which of the two runs is under way (0 when
  \* the request is sent once), the answers the truth source gave in the first
  \* run, those still to be given in the second, the first run's response
  run, log, replay, first,
  \* upload page: which page it is ("single": one file input; "triple": three),
  \* the inputs that hold a file, the React state busy, result and err, where
  \* submit() stands, the response it is reading, how many times it was
  \* started, and how its last run ended
  page, picked, busy, result, pageErr, upc, fetched, submits, last

mergeVars ==
  <<poRows, shipRows, upsRows, mergePc, mergeDetails, mergeResponse, uploads,
    settled>>

verifyVars ==
  <<variant, form, vpc, rows, i, phase, details, counts, response,
    orderExists, partyOT, resPref, resOther, err, calls, failedModes, thrown,
    decided, pending>>

rerunVars == <<run, log, replay, first>>

pageVars == <<page, picked, busy, result, pageErr, upc, fetched, submits, last>>

vars == <<mergeVars, verifyVars, rerunVars, pageVars>>

\* The roles of the files of a cross-file request.
Sources == {"PO", "ShipDocs", "UPS"}

\* The uploaded sheet that parseUploadToRows reads rws from.
SheetOf(rws) ==
  [kind |-> "sheet", cells |-> [k \in 1..Len(rws) |-> <<rws[k].tracking, rws[k].date>>]]

NoResult == [mode |-> "", verdict |-> "", reason |-> "", dayDelta |-> NoDayDelta]

NoResponse == [status |-> 0]

\* No fetch response is held.
NoFetch == [kind |-> "none"]

PageIdle ==
  /\ page = "none"
  /\ picked = {}
  /\ busy = FALSE
  /\ result = Null
  /\ pageErr = Null
  /\ upc = "idle"
  /\ fetched = NoFetch
  /\ submits = 0
  /\ last = "none"

RerunIdle ==
  /\ run = 0
  /\ log = <<>>
  /\ replay = <<>>
  /\ first = NoResponse

MergeIdle ==
  /\ poRows = <<>>
  /\ shipRows = <<>>
  /\ upsRows = <<>>
  /\ mergePc = "idle"
  /\ mergeDetails = <<>>
  /\ mergeResponse = NoResponse
  /\ uploads = [m \in Sources |-> NoFile]
  /\ settled = {}

VerifyIdle ==
  /\ variant = "none"
  /\ form = [file |-> NoFile, poFile |-> NoFile, soFile |-> NoFile]
  /\ vpc = "idle"
  /\ rows = <<>>
  /\ i = 1
  /\ phase = "pref"
  /\ details = <<>>
  /\ counts = <<>>
  /\ response = NoResponse
  /\ orderExists = FALSE
  /\ partyOT = Null
  /\ resPref = NoResult
  /\ resOther = NoResult
  /\ err = ""
  /\ calls = <<>>
  /\ failedModes = {}
  /\ thrown = <<>>
  /\ decided = <<>>
  /\ pending = <<>>

\* ------------------------------------------------------------------------
\* Cross-file handler
\* ------------------------------------------------------------------------

MergeInit ==
  /\ \E np \in 0..MaxMergeRows :
       \E ns \in 0..(MaxMergeRows - np) :
         \E nu \in 0..(MaxMergeRows - np - ns) :
           /\ poRows \in UploadFiles("PO", np)
           /\ shipRows \in UploadFiles("ShipDocs", ns)
           /\ upsRows \in UploadFiles("UPS", nu)
  /\ mergePc = "parsed"
  /\ mergeDetails = <<>>
  /\ mergeResponse = NoResponse
  /\ uploads = [m \in Sources |->
                  CASE m = "PO" -> SheetOf(poRows)
                    [] m = "ShipDocs" -> SheetOf(shipRows)
                    [] m = "UPS" -> SheetOf(upsRows)]
  /\ settled = Sources
  /\ VerifyIdle
  /\ RerunIdle
  /\ PageIdle

\* const details = reconcileByTrackingPreferPO(poRows, shipRows, upsRows);
\* const summary = buildSummary(details);
\* return Response.json({ summary, details }, { status: 200 })
Reconcile ==
  /\ mergePc = "parsed"
  /\ mergeDetails' = reconcileByTrackingPreferPO(poRows, shipRows, upsRows)
  /\ mergeResponse' =
       [ status |-> 200,
         summary |-> buildSummary(reconcileByTrackingPreferPO(poRows, shipRows, upsRows)),
         details |-> reconcileByTrackingPreferPO(poRows, shipRows, upsRows) ]
  /\ mergePc' = "reconciled"
  /\ UNCHANGED <<poRows, shipRows, upsRows, uploads, settled>>
  /\ UNCHANGED verifyVars
  /\ UNCHANGED pageVars
  /\ UNCHANGED rerunVars

MergeNext == Reconcile

SpecMerge == MergeInit /\ [][MergeNext]_vars

\* ------------------------------------------------------------------------
\* Cross-file handler: the request from its form on
\* ------------------------------------------------------------------------

\* Rows in the files of one cross-file request whose parsing is followed.
MaxUploadRows == 2

\* A file of the form: none, one the sheet reader throws on, or a sheet.
UploadedFiles(n) ==
  {NoFile, BadFile} \cup
    UNION { {[kind |-> "sheet", cells |-> c] : c \in [1..m -> UploadCells]} :
            m \in 0..n }

UploadRowCount(f) == IF f.kind = "sheet" THEN Len(f.cells) ELSE 0

\* parseUploadToRows(file, sourceMode) on a readable sheet.
parseUploadToRows(f, mode) ==
  [k \in 1..Len(f.cells) |-> MkUploadRow(mode, k, f.cells[k][1], f.cells[k][2])]

UploadInit ==
  /\ \E f \in UploadedFiles(MaxUploadRows) :
       \E g \in UploadedFiles(MaxUploadRows - UploadRowCount(f)) :
         \E h \in UploadedFiles(MaxUploadRows - UploadRowCount(f) - UploadRowCount(g)) :
           uploads = [m \in Sources |->
                        CASE m = "PO" -> f [] m = "ShipDocs" -> g [] m = "UPS" -> h]
  /\ settled = {}
  /\ poRows = <<>>
  /\ shipRows = <<>>
  /\ upsRows = <<>>
  /\ mergePc = "form"
  /\ mergeDetails = <<>>
  /\ mergeResponse = NoResponse
  /\ VerifyIdle
  /\ RerunIdle
  /\ PageIdle

\* The check of the form fields, then the call of Promise.all: the promise of
\* a role without a file is Promise.resolve([]), fulfilled from the start.
ReadUploads ==
  /\ mergePc = "form"
  /\ IF \A m \in Sources : uploads[m] = NoFile
       THEN /\ mergeResponse' =
                 [status |-> 400,
                  text |-> "Please upload at least one file (PO and/or ShipDocs and/or UPS)."]
            /\ mergePc' = "failed"
            /\ settled' = settled
     ELSE /\ mergeResponse' = mergeResponse
          /\ mergePc' = "parsing"
          /\ settled' = { m \in Sources : uploads[m] = NoFile }
  /\ UNCHANGED <<poRows, shipRows, upsRows, mergeDetails, uploads>>
  /\ UNCHANGED verifyVars
  /\ UNCHANGED pageVars
  /\ UNCHANGED rerunVars

\* Faulty variant of ParseUpload: an unreadable file resolves to no rows.
ParseUploadForgives(m) ==
  /\ mergePc = "parsing"
  /\ m \notin settled
  /\ LET parsed == IF uploads[m] = BadFile THEN <<>>
                   ELSE parseUploadToRows(uploads[m], m)
     IN /\ poRows' = IF m = "PO" THEN parsed ELSE poRows
        /\ shipRows' = IF m = "ShipDocs" THEN parsed ELSE shipRows
        /\ upsRows' = IF m = "UPS" THEN parsed ELSE upsRows
        /\ settled' = settled \cup {m}
        /\ UNCHANGED <<mergePc, mergeResponse>>
  /\ UNCHANGED <<mergeDetails, uploads>>
  /\ UNCHANGED verifyVars
  /\ UNCHANGED pageVars
  /\ UNCHANGED rerunVars

\* One of the parseUploadToRows calls under Promise.all settles, in any order
\* with the others: it is fulfilled with the rows of its file, or it is
\* rejected, which rejects Promise.all and takes POST to its catch block.
ParseUpload(m) ==
  /\ mergePc = "parsing"
  /\ m \notin settled
  /\ IF uploads[m] = BadFile
       THEN /\ mergeResponse' = [status |-> 500, text |-> "Internal Server Error"]
            /\ mergePc' = "failed"
            /\ UNCHANGED <<poRows, shipRows, upsRows, settled>>
     ELSE /\ poRows' = IF m = "PO" THEN parseUploadToRows(uploads[m], m) ELSE poRows
          /\ shipRows' = IF m = "ShipDocs" THEN parseUploadToRows(uploads[m], m)
                         ELSE shipRows
          /\ upsRows' = IF m = "UPS" THEN parseUploadToRows(uploads[m], m) ELSE upsRows
          /\ settled' = settled \cup {m}
          /\ UNCHANGED <<mergePc, mergeResponse>>
  /\ UNCHANGED <<mergeDetails, uploads>>
  /\ UNCHANGED verifyVars
  /\ UNCHANGED pageVars
  /\ UNCHANGED rerunVars

\* Faulty variant of AwaitAll: it goes on once any one promise is fulfilled
\* (Promise.race in place of Promise.all).
AwaitAny ==
  /\ mergePc = "parsing"
  /\ settled # {}
  /\ mergePc' = "parsed"
  /\ UNCHANGED <<poRows, shipRows, upsRows, mergeDetails, mergeResponse, uploads,
                 settled>>
  /\ UNCHANGED verifyVars
  /\ UNCHANGED pageVars
  /\ UNCHANGED rerunVars

\* await Promise.all([...]) resumes: every promise is fulfilled.
AwaitAll ==
  /\ mergePc = "parsing"
  /\ settled = Sources
  /\ mergePc' = "parsed"
  /\ UNCHANGED <<poRows, shipRows, upsRows, mergeDetails, mergeResponse, uploads,
                 settled>>
  /\ UNCHANGED verifyVars
  /\ UNCHANGED pageVars
  /\ UNCHANGED rerunVars

UploadNext ==
  \/ ReadUploads
  \/ \E m \in Sources : ParseUpload(m)
  \/ AwaitAll
  \/ Reconcile

SpecUpload == UploadInit /\ [][UploadNext]_vars

\* ------------------------------------------------------------------------
\* Verification handler (POST) and reconcileOne
\* ------------------------------------------------------------------------

\* A request arrives at a verification handler with files of at most maxRows
\* rows in all; nothing has run yet.
HandlerStart(maxRows) ==
  /\ MergeIdle
  /\ PageIdle
  /\ variant \in {"single", "dual"}
  /\ \/ /\ variant = "single"
        /\ \E f \in FilesOfAtMost(maxRows) :
             form = [file |-> f, poFile |-> NoFile, soFile |-> NoFile]
     \/ /\ variant = "dual"
        /\ \E f \in FilesOfAtMost(maxRows) :
             \E g \in FilesOfAtMost(maxRows - FileRowCount(f)) :
               form = [file |-> NoFile, poFile |-> f, soFile |-> g]
  /\ vpc = "form"
  /\ rows = <<>>
  /\ i = 1
  /\ phase = "pref"
  /\ details = <<>>
  /\ counts = <<>>
  /\ response = NoResponse
  /\ orderExists = FALSE
  /\ partyOT = Null
  /\ resPref = NoResult
  /\ resOther = NoResult
  /\ err = ""
  /\ calls = <<>>
  /\ failedModes = {}
  /\ thrown = <<>>
  /\ decided = <<>>
  /\ pending = <<>>

VerifyInit == HandlerStart(MaxVerifyRows) /\ RerunIdle

frame == <<orderExists, partyOT, resPref, resOther, err>>

history == <<calls, failedModes, thrown, decided, pending>>

\* Where the handler goes once rws are the rows to reconcile and n is the next
\* index: into the loop body, or past the loop.
LoopOrRespond(rws, n) == IF n <= Len(rws) THEN "lookup" ELSE "respond"

\* Faulty variant of ReadForm: a request without any file is answered as a
\* server failure.
ReadFormFailsAs500 ==
  /\ vpc = "form"
  /\ IF variant = "single" /\ form.file = NoFile
       THEN /\ response' = [status |-> 500, text |-> "Missing file (form field 'file')"]
            /\ vpc' = "done"
     ELSE IF variant = "dual" /\ form.poFile = NoFile /\ form.soFile = NoFile
       THEN /\ response' =
                 [status |-> 500,
                  text |-> "Upload at least one file: 'poFile' and/or 'soFile'"]
            /\ vpc' = "done"
     ELSE /\ response' = response
          /\ vpc' = IF variant = "single" THEN "parse" ELSE "parsePO"
  /\ UNCHANGED <<variant, form, rows, i, phase, details, counts>>
  /\ UNCHANGED <<frame, history>>
  /\ UNCHANGED mergeVars
  /\ UNCHANGED pageVars
  /\ UNCHANGED rerunVars

\* The check of the form fields at the top of POST.
ReadForm ==
  /\ vpc = "form"
  /\ IF variant = "single" /\ form.file = NoFile
       THEN /\ response' = [status |-> 400, text |-> "Missing file (form field 'file')"]
            /\ vpc' = "done"
     ELSE IF variant = "dual" /\ form.poFile = NoFile /\ form.soFile = NoFile
       THEN /\ response' =
                 [status |-> 400,
                  text |-> "Upload at least one file: 'poFile' and/or 'soFile'"]
            /\ vpc' = "done"
     ELSE /\ response' = response
          /\ vpc' = IF variant = "single" THEN "parse" ELSE "parsePO"
  /\ UNCHANGED <<variant, form, rows, i, phase, details, counts>>
  /\ UNCHANGED <<frame, history>>
  /\ UNCHANGED mergeVars
  /\ UNCHANGED pageVars
  /\ UNCHANGED rerunVars

\* Single-file handler: rows = await parseFile(file), in its own try block.
ParseSingle ==
  /\ vpc = "parse"
  /\ LET parsed == parseFile(form.file)
     IN IF parsed.ok
          THEN /\ rows' = Tagged(parsed.rows, "")
               /\ vpc' = LoopOrRespond(parsed.rows, 1)
               /\ response' = response
        ELSE /\ rows' = rows
             /\ vpc' = "done"
             /\ response' = [status |-> 400, text |-> parsed.message]
  /\ UNCHANGED <<variant, form, i, phase, details, counts>>
  /\ UNCHANGED <<frame, history>>
  /\ UNCHANGED mergeVars
  /\ UNCHANGED pageVars
  /\ UNCHANGED rerunVars

\* Two-file handler: if (poFile) await parseAndTag(poFile, "PO"); an error
\* thrown by parseFile reaches the outer catch.
ParsePO ==
  /\ vpc = "parsePO"
  /\ LET parsed == IF form.poFile = NoFile THEN [ok |-> TRUE, rows |-> <<>>]
                   ELSE parseFile(form.poFile)
     IN IF parsed.ok
          THEN /\ rows' = rows \o Tagged(parsed.rows, "PO")
               /\ vpc' = "parseSO"
               /\ response' = response
        ELSE /\ rows' = rows
             /\ vpc' = "done"
             /\ response' = [status |-> 500, text |-> parsed.message]
  /\ UNCHANGED <<variant, form, i, phase, details, counts>>
  /\ UNCHANGED <<frame, history>>
  /\ UNCHANGED mergeVars
  /\ UNCHANGED pageVars
  /\ UNCHANGED rerunVars

\* if (soFile) await parseAndTag(soFile, "SO"); then the check that some row
\* was parsed.
ParseSO ==
  /\ vpc = "parseSO"
  /\ LET parsed == IF form.soFile = NoFile THEN [ok |-> TRUE, rows |-> <<>>]
                   ELSE parseFile(form.soFile)
     IN IF ~parsed.ok
          THEN /\ rows' = rows
               /\ vpc' = "done"
               /\ response' = [status |-> 500, text |-> parsed.message]
        ELSE IF rows \o parsed.rows = <<>>
          THEN /\ rows' = rows
               /\ vpc' = "done"
               /\ response' = [status |-> 400, text |-> "No data rows found in uploads."]
        ELSE /\ rows' = rows \o Tagged(parsed.rows, "SO")
             /\ vpc' = "lookup"
             /\ response' = response
  /\ UNCHANGED <<variant, form, i, phase, details, counts>>
  /\ UNCHANGED <<frame, history>>
  /\ UNCHANGED mergeVars
  /\ UNCHANGED pageVars
  /\ UNCHANGED rerunVars

\* The interpretation reconcileOne is running for row i.
Mode == IF phase = "pref" THEN Prefer(rows[i]) ELSE Other(Prefer(rows[i]))

\* reconcileOne(Mode, rows[i]) returns res: it is resPref, and the handler
\* calls reconcileOne for the other mode; or it is resOther, and the handler
\* goes on to pick.
Returned(res, exists, pkgs) ==
  /\ decided' = Append(decided, [mode |-> res.mode, orderExists |-> exists,
                                 packages |-> pkgs])
  /\ IF phase = "pref"
       THEN /\ resPref' = res
            /\ resOther' = resOther
            /\ phase' = "other"
            /\ vpc' = "lookup"
     ELSE /\ resPref' = resPref
          /\ resOther' = res
          /\ phase' = phase
          /\ vpc' = "pick"
  /\ orderExists' = FALSE
  /\ partyOT' = Null
  /\ err' = err
  /\ thrown' = thrown

\* extractPackages throws inside reconcileOne: control goes to the catch block
\* of the row.
Threw(message) ==
  /\ vpc' = "catch"
  /\ err' = message
  /\ thrown' = Append(thrown, [row |-> i, mode |-> Mode, message |-> message])
  /\ orderExists' = FALSE
  /\ partyOT' = Null
  /\ UNCHANGED <<phase, resPref, resOther, decided>>

\* reconcileOne is suspended at the await of the lookup fn, which is the one
\* lookup not yet answered.
Awaited(fn) == pending # <<>> /\ pending[1].fn = fn

\* The lookup reconcileOne calls next for row i, with its argument.
NextLookup ==
  IF vpc = "activity"
    THEN [fn |-> "getActivity", mode |-> Mode, key |-> rows[i].orderNumber]
  ELSE IF Truthy(rows[i].orderNumber)
    THEN [fn |-> "getOrder", mode |-> Mode, key |-> rows[i].orderNumber]
  ELSE [fn |-> "findByTracking", mode |-> Mode,
        key |-> StripSpacesAndHyphens(rows[i].trackingNumber)]

\* Faulty variant of Issue: the lookups of both interpretations of the row are
\* sent at once.
IssueBothModes ==
  /\ vpc \in {"lookup", "activity"}
  /\ pending = <<>>
  /\ calls' = Append(calls, NextLookup)
  /\ pending' = << [fn |-> NextLookup.fn, mode |-> Mode, row |-> i],
                   [fn |-> NextLookup.fn, mode |-> Other(Mode), row |-> i] >>
  /\ UNCHANGED <<variant, form, vpc, rows, i, phase, details, counts, response>>
  /\ UNCHANGED <<frame, failedModes, thrown, decided>>
  /\ UNCHANGED mergeVars
  /\ UNCHANGED pageVars
  /\ UNCHANGED rerunVars

\* reconcileOne calls getOrder, getActivity or findByTracking and is suspended
\* at the await until the truth source answers.
Issue ==
  /\ vpc \in {"lookup", "activity"}
  /\ pending = <<>>
  /\ calls' = Append(calls, NextLookup)
  /\ pending' = << [fn |-> NextLookup.fn, mode |-> Mode, row |-> i] >>
  /\ UNCHANGED <<variant, form, vpc, rows, i, phase, details, counts, response>>
  /\ UNCHANGED <<frame, failedModes, thrown, decided>>
  /\ UNCHANGED mergeVars
  /\ UNCHANGED pageVars
  /\ UNCHANGED rerunVars

\* The await of a lookup that is never answered: reconcileOne stays suspended
\* at it, and nothing in the handler resumes it.
Waits ==
  /\ vpc' = "waiting"
  /\ UNCHANGED <<orderExists, partyOT, phase, resPref, resOther, err, thrown,
                 decided>>

\* Faulty variant of GetOrderOn: the activity is fetched whether or not the
\* order was found.
GetOrderThenAlwaysActivity(answer) ==
  /\ vpc = "lookup"
  /\ Truthy(rows[i].orderNumber)
  /\ Awaited("getOrder")
  /\ pending' = IF answer.kind = "silent" THEN pending ELSE <<>>
  /\ calls' = calls
  /\ failedModes' = IF answer.kind = "reject" THEN failedModes \cup {Mode}
                    ELSE failedModes
  /\ IF answer.kind = "silent" THEN Waits
     ELSE /\ orderExists' = (answer.kind = "order")
          /\ partyOT' = IF answer.kind = "order" THEN answer.partyName ELSE Null
          /\ vpc' = "activity"
          /\ UNCHANGED <<phase, resPref, resOther, err, thrown, decided>>
  /\ UNCHANGED <<variant, form, rows, i, details, counts, response>>
  /\ UNCHANGED mergeVars
  /\ UNCHANGED pageVars

\* const order = await getOrder(mode, r.orderNumber).catch(() => null), and
\* what follows up to the next await or the return.
GetOrderOn(answer) ==
  /\ vpc = "lookup"
  /\ Truthy(rows[i].orderNumber)
  /\ Awaited("getOrder")
  /\ pending' = IF answer.kind = "silent" THEN pending ELSE <<>>
  /\ calls' = calls
  /\ failedModes' = IF answer.kind = "reject" THEN failedModes \cup {Mode}
                    ELSE failedModes
  /\ IF answer.kind = "silent" THEN Waits
     ELSE IF answer.kind = "order"
       THEN /\ orderExists' = TRUE
            /\ partyOT' = answer.partyName
            /\ vpc' = "activity"
            /\ UNCHANGED <<phase, resPref, resOther, err, thrown, decided>>
     ELSE Returned(Decided(Mode, rows[i], FALSE, <<>>, Null), FALSE, <<>>)
  /\ UNCHANGED <<variant, form, rows, i, details, counts, response>>
  /\ UNCHANGED mergeVars
  /\ UNCHANGED pageVars

GetOrder ==
  \E answer \in OrderAnswers : GetOrderOn(answer) /\ UNCHANGED rerunVars

\* const activity = await getActivity(mode, r.orderNumber).catch(() => null);
\* packages = activity ? extractPackages(activity) : []; then decide.
GetActivityOn(answer) ==
  /\ vpc = "activity"
  /\ Awaited("getActivity")
  /\ pending' = IF answer.kind = "silent" THEN pending ELSE <<>>
  /\ calls' = calls
  /\ failedModes' = IF answer.kind = "reject" THEN failedModes \cup {Mode}
                    ELSE failedModes
  /\ IF answer.kind = "silent" THEN Waits
     ELSE IF answer.kind = "malformed" THEN Threw(NotIterable)
     ELSE Returned(Decided(Mode, rows[i], orderExists,
                           extractPackages(answer), partyOT),
                   orderExists, extractPackages(answer))
  /\ UNCHANGED <<variant, form, rows, i, details, counts, response>>
  /\ UNCHANGED mergeVars
  /\ UNCHANGED pageVars

GetActivity ==
  \E answer \in GetActivityAnswers : GetActivityOn(answer) /\ UNCHANGED rerunVars

\* Faulty variant of FindByTrackingOn: the order exists as soon as the search
\* answered with documents, whether or not they hold a package.
FindByTrackingTrustsDocs(answer) ==
  /\ vpc = "lookup"
  /\ ~Truthy(rows[i].orderNumber)
  /\ Truthy(rows[i].trackingNumber)
  /\ Awaited("findByTracking")
  /\ pending' = <<>>
  /\ calls' = calls
  /\ failedModes' = IF answer.kind = "reject" THEN failedModes \cup {Mode}
                    ELSE failedModes
  /\ IF answer.kind = "malformed" THEN Threw(NotIterable)
     ELSE Returned(Decided(Mode, rows[i],
                           answer.kind = "docs",
                           extractPackages(answer), extractParty(answer)),
                   answer.kind = "docs", extractPackages(answer))
  /\ UNCHANGED <<variant, form, rows, i, details, counts, response>>
  /\ UNCHANGED mergeVars
  /\ UNCHANGED pageVars

\* const activity = await findByTracking(mode, tracking, hint).catch(() => null);
\* packages, partyOT, orderExists = packages.length > 0; then decide.
FindByTrackingOn(answer) ==
  /\ vpc = "lookup"
  /\ ~Truthy(rows[i].orderNumber)
  /\ Truthy(rows[i].trackingNumber)
  /\ Awaited("findByTracking")
  /\ pending' = <<>>
  /\ calls' = calls
  /\ failedModes' = IF answer.kind = "reject" THEN failedModes \cup {Mode}
                    ELSE failedModes
  /\ IF answer.kind = "malformed" THEN Threw(NotIterable)
     ELSE Returned(Decided(Mode, rows[i],
                           Len(extractPackages(answer)) > 0,
                           extractPackages(answer), extractParty(answer)),
                   Len(extractPackages(answer)) > 0, extractPackages(answer))
  /\ UNCHANGED <<variant, form, rows, i, details, counts, response>>
  /\ UNCHANGED mergeVars
  /\ UNCHANGED pageVars

FindByTracking ==
  \E answer \in ActivityAnswers : FindByTrackingOn(answer) /\ UNCHANGED rerunVars

\* Faulty variant of Emit: the result goes to the front of details.
EmitAtFront ==
  /\ vpc = "pick"
  /\ counts' = Counted(counts, Pick(resPref, resOther).verdict)
  /\ details' = <<PickedDetail(i, rows[i], resPref, resOther)>> \o details
  /\ i' = i + 1
  /\ vpc' = LoopOrRespond(rows, i + 1)
  /\ phase' = "pref"
  /\ resPref' = NoResult
  /\ resOther' = NoResult
  /\ calls' = <<>>
  /\ failedModes' = {}
  /\ decided' = <<>>
  /\ pending' = <<>>
  /\ UNCHANGED <<variant, form, rows, response, orderExists, partyOT, err, thrown>>
  /\ UNCHANGED mergeVars
  /\ UNCHANGED pageVars
  /\ UNCHANGED rerunVars

\* The rest of the try block: pick, count, push; then the next iteration.
Emit ==
  /\ vpc = "pick"
  /\ counts' = Counted(counts, Pick(resPref, resOther).verdict)
  /\ details' = Append(details, PickedDetail(i, rows[i], resPref, resOther))
  /\ i' = i + 1
  /\ vpc' = LoopOrRespond(rows, i + 1)
  /\ phase' = "pref"
  /\ resPref' = NoResult
  /\ resOther' = NoResult
  /\ calls' = <<>>
  /\ failedModes' = {}
  /\ decided' = <<>>
  /\ pending' = <<>>
  /\ UNCHANGED <<variant, form, rows, response, orderExists, partyOT, err, thrown>>
  /\ UNCHANGED mergeVars
  /\ UNCHANGED pageVars
  /\ UNCHANGED rerunVars

\* Faulty variant of RowCatch: it lets the error of one row end the request.
RowCatchRethrows ==
  /\ vpc = "catch"
  /\ response' = [status |-> 500, text |-> err]
  /\ vpc' = "done"
  /\ UNCHANGED <<variant, form, rows, i, phase, details, counts>>
  /\ UNCHANGED <<frame, history>>
  /\ UNCHANGED mergeVars
  /\ UNCHANGED pageVars
  /\ UNCHANGED rerunVars

\* Faulty variant of RowCatch: the error of one row also marks the results
\* pushed before it.
RowCatchRevisesEarlier ==
  /\ vpc = "catch"
  /\ counts' = Counted(counts, "ERROR")
  /\ details' = Append([n \in 1..Len(details) |->
                          [details[n] EXCEPT !.verdict = "ERROR", !.reason = err]],
                       ErrorDetail(i, rows[i], err))
  /\ i' = i + 1
  /\ vpc' = LoopOrRespond(rows, i + 1)
  /\ phase' = "pref"
  /\ resPref' = NoResult
  /\ resOther' = NoResult
  /\ err' = ""
  /\ calls' = <<>>
  /\ failedModes' = {}
  /\ decided' = <<>>
  /\ pending' = <<>>
  /\ UNCHANGED <<variant, form, rows, response, orderExists, partyOT, thrown>>
  /\ UNCHANGED mergeVars
  /\ UNCHANGED pageVars
  /\ UNCHANGED rerunVars

\* Faulty variant of RowCatch: it counts the error and pushes nothing.
RowCatchDropsRow ==
  /\ vpc = "catch"
  /\ counts' = Counted(counts, "ERROR")
  /\ details' = details
  /\ i' = i + 1
  /\ vpc' = LoopOrRespond(rows, i + 1)
  /\ phase' = "pref"
  /\ resPref' = NoResult
  /\ resOther' = NoResult
  /\ err' = ""
  /\ calls' = <<>>
  /\ failedModes' = {}
  /\ decided' = <<>>
  /\ pending' = <<>>
  /\ UNCHANGED <<variant, form, rows, response, orderExists, partyOT, thrown>>
  /\ UNCHANGED mergeVars
  /\ UNCHANGED pageVars
  /\ UNCHANGED rerunVars

\* The catch block of the row: count an ERROR, push the error object; then the
\* next iteration.
RowCatch ==
  /\ vpc = "catch"
  /\ counts' = Counted(counts, "ERROR")
  /\ details' = Append(details, ErrorDetail(i, rows[i], err))
  /\ i' = i + 1
  /\ vpc' = LoopOrRespond(rows, i + 1)
  /\ phase' = "pref"
  /\ resPref' = NoResult
  /\ resOther' = NoResult
  /\ err' = ""
  /\ calls' = <<>>
  /\ failedModes' = {}
  /\ decided' = <<>>
  /\ pending' = <<>>
  /\ UNCHANGED <<variant, form, rows, response, orderExists, partyOT, thrown>>
  /\ UNCHANGED mergeVars
  /\ UNCHANGED pageVars
  /\ UNCHANGED rerunVars

\* return Response.json({ summary: counts, details })
Respond ==
  /\ vpc = "respond"
  /\ response' = [status |-> 200, summary |-> counts, details |-> details]
  /\ vpc' = "done"
  /\ UNCHANGED <<variant, form, rows, i, phase, details, counts>>
  /\ UNCHANGED <<frame, history>>
  /\ UNCHANGED mergeVars
  /\ UNCHANGED pageVars
  /\ UNCHANGED rerunVars

VerifyNext ==
  \/ ReadForm
  \/ ParseSingle
  \/ ParsePO
  \/ ParseSO
  \/ Issue
  \/ GetOrder
  \/ GetActivity
  \/ FindByTracking
  \/ Emit
  \/ RowCatch
  \/ Respond

SpecVerify == VerifyInit /\ [][VerifyNext]_vars

\* ------------------------------------------------------------------------
\* The same verification request sent twice
\* ------------------------------------------------------------------------

\* Rows in the files of a request that is sent twice.
MaxRerunRows == 1

RerunInit ==
  /\ HandlerStart(MaxRerunRows)
  /\ run = 1
  /\ log = <<>>
  /\ replay = <<>>
  /\ first = NoResponse

\* The truth source gives answer to the lookup under way: any answer in the
\* first run, which is noted; in the second run the answer it gave to the same
\* lookup of the first.
Given(answer) ==
  /\ IF run = 1
       THEN /\ log' = Append(log, answer)
            /\ replay' = replay
     ELSE /\ replay # <<>>
          /\ answer = Head(replay)
          /\ replay' = Tail(replay)
          /\ log' = log
  /\ UNCHANGED <<run, first>>

\* The answers met by a request that is sent twice: those after which a
\* response comes, one for each way the handler goes on (a rejected lookup, an
\* order of either party, documents that cannot be iterated, dated documents).
RerunOrderAnswers ==
  { a \in OrderAnswers : a.kind \in {"reject", "order"} }

RerunActivityAnswers ==
  { a \in ActivityAnswers :
      a.kind \in {"reject", "malformed"} \/ (a.kind = "docs" /\ a.docs # <<>>) }

AnsweredGetOrder ==
  \E answer \in RerunOrderAnswers : Given(answer) /\ GetOrderOn(answer)

AnsweredGetActivity ==
  \E answer \in RerunActivityAnswers : Given(answer) /\ GetActivityOn(answer)

AnsweredFindByTracking ==
  \E answer \in RerunActivityAnswers : Given(answer) /\ FindByTrackingOn(answer)

\* Faulty variant of Rerun: counts outlives the request, as a variable of the
\* module would.
RerunKeepsCounts ==
  /\ run = 1
  /\ vpc = "done"
  /\ run' = 2
  /\ first' = response
  /\ replay' = log
  /\ log' = log
  /\ vpc' = "form"
  /\ rows' = <<>>
  /\ i' = 1
  /\ phase' = "pref"
  /\ details' = <<>>
  /\ counts' = counts
  /\ response' = NoResponse
  /\ orderExists' = FALSE
  /\ partyOT' = Null
  /\ resPref' = NoResult
  /\ resOther' = NoResult
  /\ err' = ""
  /\ calls' = <<>>
  /\ failedModes' = {}
  /\ decided' = <<>>
  /\ pending' = <<>>
  /\ thrown' = <<>>
  /\ UNCHANGED <<variant, form>>
  /\ UNCHANGED mergeVars
  /\ UNCHANGED pageVars

\* The same form is posted again once the first response is out: POST starts
\* anew, with rows, details and counts of its own.
Rerun ==
  /\ run = 1
  /\ vpc = "done"
  /\ run' = 2
  /\ first' = response
  /\ replay' = log
  /\ log' = log
  /\ vpc' = "form"
  /\ rows' = <<>>
  /\ i' = 1
  /\ phase' = "pref"
  /\ details' = <<>>
  /\ counts' = <<>>
  /\ response' = NoResponse
  /\ orderExists' = FALSE
  /\ partyOT' = Null
  /\ resPref' = NoResult
  /\ resOther' = NoResult
  /\ err' = ""
  /\ calls' = <<>>
  /\ failedModes' = {}
  /\ decided' = <<>>
  /\ pending' = <<>>
  /\ thrown' = <<>>
  /\ UNCHANGED <<variant, form>>
  /\ UNCHANGED mergeVars
  /\ UNCHANGED pageVars

RerunNext ==
  \/ ReadForm
  \/ ParseSingle
  \/ ParsePO
  \/ ParseSO
  \/ Issue
  \/ AnsweredGetOrder
  \/ AnsweredGetActivity
  \/ AnsweredFindByTracking
  \/ Emit
  \/ RowCatch
  \/ Respond
  \/ Rerun

SpecRerun == RerunInit /\ [][RerunNext]_vars

\* ------------------------------------------------------------------------
\* Upload page: submit()
\* ------------------------------------------------------------------------

\* Times the Reconcile button is pressed.
MaxSubmits == 2

\* The file inputs of the page.
Inputs == IF page = "single" THEN {"file"} ELSE {"poFile", "soFile", "upsFile"}

\* What fetch settles with: it is rejected (the network fails), or it is
\* fulfilled with a response whose body can or cannot be read.
FetchOutcomes ==
  { [kind |-> "rejected"],
    [kind |-> "response", status |-> 200, statusText |-> "OK", body |-> "json"],
    [kind |-> "response", status |-> 200, statusText |-> "OK", body |-> "unreadable"],
    [kind |-> "response", status |-> 400, statusText |-> "Bad Request", body |-> "text"],
    [kind |-> "response", status |-> 500, statusText |-> "Internal Server Error",
     body |-> "text"],
    [kind |-> "response", status |-> 500, statusText |-> "Internal Server Error",
     body |-> "unreadable"] }

\* r.ok
Ok(r) == r.status \in 200..299

PageInit ==
  /\ MergeIdle
  /\ VerifyIdle
  /\ RerunIdle
  /\ page \in {"single", "triple"}
  /\ picked = {}
  /\ busy = FALSE
  /\ result = Null
  /\ pageErr = Null
  /\ upc = "idle"
  /\ fetched = NoFetch
  /\ submits = 0
  /\ last = "none"

\* onChange of a file input: a file is chosen, or the choice is cleared.
SetFile ==
  /\ \E f \in Inputs : picked' = IF f \in picked THEN picked \ {f} ELSE picked \cup {f}
  /\ UNCHANGED <<page, busy, result, pageErr, upc, fetched, submits, last>>
  /\ UNCHANGED <<mergeVars, verifyVars, rerunVars>>

\* The button is not disabled: disabled={!file || busy}, disabled={busy ||
\* (!poFile && !soFile && !upsFile)}.
ButtonEnabled == ~busy /\ picked # {}

\* onClick={submit}, up to the await of fetch: setBusy(true); setErr(null);
\* setResult(null); fetch(...).
Submit ==
  /\ ButtonEnabled
  /\ upc = "idle"
  /\ submits < MaxSubmits
  /\ submits' = submits + 1
  /\ busy' = TRUE
  /\ pageErr' = Null
  /\ result' = Null
  /\ upc' = "fetch"
  /\ last' = "running"
  /\ UNCHANGED <<page, picked, fetched>>
  /\ UNCHANGED <<mergeVars, verifyVars, rerunVars>>

\* submit() ends by an exception: nothing in it catches, so the promise it
\* returned is rejected and no state setter runs.
SubmitThrows ==
  /\ upc' = "idle"
  /\ last' = "threw"
  /\ fetched' = NoFetch
  /\ UNCHANGED <<busy, result, pageErr>>

\* const r = await fetch("/api/reconcile", { method: "POST", body: fd })
FetchSettles ==
  /\ upc = "fetch"
  /\ \E r \in FetchOutcomes :
       IF r.kind = "rejected" THEN SubmitThrows
       ELSE /\ fetched' = r
            /\ upc' = IF Ok(r) THEN "json" ELSE "text"
            /\ UNCHANGED <<busy, result, pageErr, last>>
  /\ UNCHANGED <<page, picked, submits>>
  /\ UNCHANGED <<mergeVars, verifyVars, rerunVars>>

\* if (!r.ok) { const text = await r.text(); setErr(...); setBusy(false);
\* return; }
ReadText ==
  /\ upc = "text"
  /\ IF fetched.body = "unreadable" THEN SubmitThrows
     ELSE /\ pageErr' = <<fetched.status, fetched.statusText, fetched.body>>
          /\ busy' = FALSE
          /\ upc' = "idle"
          /\ last' = "notOk"
          /\ fetched' = NoFetch
          /\ result' = result
  /\ UNCHANGED <<page, picked, submits>>
  /\ UNCHANGED <<mergeVars, verifyVars, rerunVars>>

\* const j = await r.json(); setResult(j); setBusy(false);
ReadJson ==
  /\ upc = "json"
  /\ IF fetched.body = "unreadable" THEN SubmitThrows
     ELSE /\ result' = <<fetched.status, fetched.body>>
          /\ busy' = FALSE
          /\ upc' = "idle"
          /\ last' = "ok"
          /\ fetched' = NoFetch
          /\ pageErr' = pageErr
  /\ UNCHANGED <<page, picked, submits>>
  /\ UNCHANGED <<mergeVars, verifyVars, rerunVars>>

PageNext ==
  \/ SetFile
  \/ Submit
  \/ FetchSettles
  \/ ReadText
  \/ ReadJson

SpecPage == PageInit /\ [][PageNext]_vars

\* ------------------------------------------------------------------------
\* Claims on the cross-file merge (SpecMerge)
\* ------------------------------------------------------------------------

AllMergeRows == poRows \o shipRows \o upsRows

\* The rows of one source whose tracking number normalizes to k.
MergeRowsOf(k, mode) ==
  { x \in 1..Len(AllMergeRows) :
      /\ AllMergeRows[x].sourceMode = mode
      /\ NormTracking(AllMergeRows[x].tracking) = k }

\* The non-empty normalized tracking numbers over all uploaded rows.
MergeKeys ==
  { NormTracking(AllMergeRows[x].tracking) : x \in 1..Len(AllMergeRows) } \ {<<>>}

\* The results reported for tracking number k.
MergeResultsFor(k) ==
  { j \in 1..Len(mergeDetails) : mergeDetails[j].trackingUpload = k }

MergeDone == mergePc = "reconciled"

\* C1: a tracking number found on a PO row and on a ShipDocs row, in any numbers
\* and any order, has one result, and its verdict is MATCH_PO, never
\* MATCH_SHIPDOCS.
C1_PoPrecedence ==
  MergeDone =>
    \A k \in MergeKeys :
      (MergeRowsOf(k, "PO") # {} /\ MergeRowsOf(k, "ShipDocs") # {}) =>
        /\ Cardinality(MergeResultsFor(k)) = 1
        /\ \A j \in MergeResultsFor(k) : mergeDetails[j].verdict = "MATCH_PO"

C1_Witness ==
  /\ MergeDone
  /\ \E k \in MergeKeys :
       /\ MergeRowsOf(k, "PO") # {}
       /\ Cardinality(MergeRowsOf(k, "ShipDocs")) >= 2

\* C2: the merge returns exactly one result per distinct non-empty normalized
\* tracking number; spellings of one number that differ in case, spacing or
\* punctuation share a result, and rows without a tracking number give none.
C2_OneResultPerTracking ==
  MergeDone =>
    /\ Len(mergeDetails) = Cardinality(MergeKeys)
    /\ \A k \in MergeKeys : Cardinality(MergeResultsFor(k)) = 1
    /\ \A j \in 1..Len(mergeDetails) : mergeDetails[j].trackingUpload \in MergeKeys
    /\ (\E x \in 1..Len(AllMergeRows) :
          AllMergeRows[x].tracking \in {Tracking1Z9, Tracking1Z9Spelled})
         => Cardinality(MergeResultsFor(Tracking1Z9)) = 1
    /\ (\A x \in 1..Len(AllMergeRows) :
          AllMergeRows[x].tracking = Null)
         => mergeDetails = <<>>

C2_Witness ==
  /\ MergeDone
  /\ \E x, j, n \in 1..Len(AllMergeRows) :
       /\ AllMergeRows[x].tracking = Tracking1Z9
       /\ AllMergeRows[j].tracking = Tracking1Z9Spelled
       /\ AllMergeRows[n].tracking = Null
  /\ Len(mergeDetails) = 1

MergeVerdicts == {"MATCH_PO", "MATCH_SHIPDOCS", "UNMATCHED_UPS"}

\* C3: a group with ShipDocs rows and no PO row resolves to MATCH_SHIPDOCS, a
\* group of UPS rows only to UNMATCHED_UPS with an empty orderNumber, and every
\* group resolves to exactly one of the three verdicts.
C3_GroupVerdicts ==
  MergeDone =>
    \A k \in MergeKeys :
      /\ Cardinality(MergeResultsFor(k)) = 1
      /\ \A j \in MergeResultsFor(k) :
           /\ mergeDetails[j].verdict \in MergeVerdicts
           /\ (MergeRowsOf(k, "PO") = {} /\ MergeRowsOf(k, "ShipDocs") # {})
                => mergeDetails[j].verdict = "MATCH_SHIPDOCS"
           /\ (MergeRowsOf(k, "PO") = {} /\ MergeRowsOf(k, "ShipDocs") = {})
                => /\ mergeDetails[j].verdict = "UNMATCHED_UPS"
                   /\ mergeDetails[j].orderNumber = <<>>

C3_Witness ==
  /\ MergeDone
  /\ \E k1, k2 \in MergeKeys :
       /\ MergeRowsOf(k1, "PO") = {} /\ MergeRowsOf(k1, "ShipDocs") # {}
       /\ MergeRowsOf(k1, "UPS") # {}
       /\ MergeRowsOf(k2, "PO") = {} /\ MergeRowsOf(k2, "ShipDocs") = {}

\* ------------------------------------------------------------------------
\* Claims on the verification handler (SpecVerify)
\* ------------------------------------------------------------------------

\* The rank the verdict scorer is documented to use.
DocumentedRank(verdict) ==
  CASE verdict = "OK" -> 3
    [] verdict = "MISMATCH" -> 2
    [] verdict = "NOT_FOUND" -> 1
    [] verdict = "ERROR" -> 0

\* The mode a row declares: that of its file, PO when it declares none.
DeclaredMode(r) == IF r.sourceMode \in {"PO", "SO"} THEN r.sourceMode ELSE "PO"

\* A cell holds text: some character of it is not a space.
HasText(cell) == cell # Null /\ \E n \in 1..Len(cell) : cell[n] # " "

\* The rows of an uploaded file that carry an order number or a tracking number.
UsableRows(f) ==
  IF f.kind # "sheet" THEN {}
  ELSE { n \in 1..Len(f.rows) : HasText(f.rows[n].order) \/ HasText(f.rows[n].tracking) }

UsableRowCount ==
  Cardinality(UsableRows(form.file)) + Cardinality(UsableRows(form.poFile))
    + Cardinality(UsableRows(form.soFile))

\* The result of the interpretation in mode m of the row under way.
ResultIn(m) == IF resPref.mode = m THEN resPref ELSE resOther

\* C4: when the two interpretations of a row have verdicts of different rank
\* (OK 3, MISMATCH 2, NOT_FOUND 1, ERROR 0), the result pushed for the row has
\* the mode and the verdict of the higher-ranked one, whichever ran first.
C4_HigherRankWins ==
  [][ (vpc = "pick"
       /\ DocumentedRank(resPref.verdict) # DocumentedRank(resOther.verdict))
      => LET win == IF DocumentedRank(resPref.verdict) > DocumentedRank(resOther.verdict)
                      THEN resPref ELSE resOther
         IN /\ Len(details') = Len(details) + 1
            /\ details'[Len(details')].chosenMode = win.mode
            /\ details'[Len(details')].verdict = win.verdict ]_vars

\* A PO-file row, interpreted first as PO: NOT_FOUND as PO, OK as SO, reported
\* as SO, OK.
C4_Witness ==
  \E n \in 1..Len(details) :
    /\ rows[n].sourceMode = "PO"
    /\ details[n].chosenMode = "SO"
    /\ details[n].verdict = "OK"
    /\ details[n].poVerdict = "NOT_FOUND"
    /\ details[n].soVerdict = "OK"

\* C5: when the two interpretations of a row have verdicts of equal rank, the
\* reported mode is that of the interpretation evaluated first, which is the
\* mode the row declares (PO when it declares none).
C5_TieKeepsDeclaredMode ==
  [][ (vpc = "pick"
       /\ DocumentedRank(resPref.verdict) = DocumentedRank(resOther.verdict))
      => /\ Len(details') = Len(details) + 1
         /\ calls[1].mode = DeclaredMode(rows[i])
         /\ details'[Len(details')].chosenMode = calls[1].mode ]_vars

\* An SO-file row whose two interpretations tie, reported as SO.
C5_Witness ==
  \E n \in 1..Len(details) :
    /\ rows[n].sourceMode = "SO"
    /\ details[n].chosenMode = "SO"
    /\ details[n].poVerdict = details[n].soVerdict

\* C6: an interpretation of a row that had a truth-source lookup fail has the
\* verdict ERROR.
C6_FailedLookupIsError ==
  vpc = "pick" => \A m \in failedModes : ResultIn(m).verdict = "ERROR"

\* Both interpretations of a row are in, and one whose lookup was rejected
\* carries NOT_FOUND, the verdict of a lookup that found nothing.
C6_Witness ==
  /\ vpc = "pick"
  /\ \E m \in failedModes : ResultIn(m).verdict = "NOT_FOUND"

\* C7: a successful response holds one result per usable uploaded row (a row with
\* an order number or a tracking number), in row order, whether the row was
\* reconciled or threw.
C7_RowConservation ==
  response.status = 200 =>
    /\ Len(response.details) = UsableRowCount
    /\ \A n \in 1..Len(response.details) : response.details[n].row = n

C7_Witness ==
  /\ response.status = 200
  /\ Len(response.details) = 2
  /\ \E n, m \in 1..Len(response.details) :
       /\ n \in {thrown[k].row : k \in 1..Len(thrown)}
       /\ m \notin {thrown[k].row : k \in 1..Len(thrown)}

\* The rows whose results are ERROR.
ErrorRows == { n \in 1..Len(details) : details[n].verdict = "ERROR" }

\* C8: a row whose reconciliation throws is emitted with verdict ERROR and the
\* exception message as reason and is counted under ERROR; the rows after it are
\* still processed, and the request still succeeds with a result for every row.
C8_RowErrorIsAbsorbed ==
  /\ \A k \in 1..Len(thrown) :
       (vpc # "catch" \/ thrown[k].row < i) =>
         /\ Len(details) >= thrown[k].row
         /\ details[thrown[k].row].row = thrown[k].row
         /\ details[thrown[k].row].verdict = "ERROR"
         /\ details[thrown[k].row].reason = thrown[k].message
         /\ "ERROR" \in DOMAIN counts
         /\ counts["ERROR"] = Cardinality(ErrorRows)
  /\ (thrown # <<>> /\ vpc = "done") =>
       /\ response.status = 200
       /\ Len(response.details) = Len(rows)
       /\ response.summary["ERROR"] = Len(thrown)

\* The first of two rows threw; the second was reconciled and reported.
C8_Witness ==
  /\ vpc = "done"
  /\ Len(rows) = 2
  /\ Len(thrown) = 1
  /\ thrown[1].row = 1
  /\ response.status = 200
  /\ response.details[2].verdict = "OK"

\* C9: in a request with several files, when some file gave usable rows the
\* request succeeds with the results of those rows, whatever became of the
\* other files.
C9_BadFileIsAbsorbed ==
  (/\ variant = "dual"
   /\ vpc = "done"
   /\ form.poFile # NoFile
   /\ form.soFile # NoFile
   /\ UsableRowCount > 0)
    => /\ response.status = 200
       /\ Len(response.details) = UsableRowCount

\* Two files were supplied, the PO file has a usable row, the SO file could not
\* be parsed or has none, and the request failed as a whole.
C9_Witness ==
  /\ variant = "dual"
  /\ vpc = "done"
  /\ form.poFile # NoFile
  /\ form.soFile # NoFile
  /\ Cardinality(UsableRows(form.poFile)) > 0
  /\ Cardinality(UsableRows(form.soFile)) = 0
  /\ response.status = 500
  /\ "details" \notin DOMAIN response

\* C10: every emitted result carries the verdicts of both interpretations.
C10_BothSubVerdicts ==
  \A n \in 1..Len(details) :
    {"poVerdict", "soVerdict"} \subseteq DOMAIN details[n]

\* A result was emitted after the first interpretation threw: the second was
\* never evaluated and the result carries neither sub-verdict.
C10_Witness ==
  \E n \in 1..Len(details) :
    /\ DOMAIN details[n] \cap {"poVerdict", "soVerdict"} = {}
    /\ \E k \in 1..Len(thrown) : thrown[k].row = n /\ thrown[k].mode = Prefer(rows[n])

\* ------------------------------------------------------------------------
\* Claims on the parsed rows and the display fields
\* ------------------------------------------------------------------------

\* An UploadRow of the cross-file request carries an identifier: a tracking
\* number or a document number.
HasIdentifier(r) ==
  Truthy(r.tracking) \/ Truthy(r.poNumber) \/ Truthy(r.shipDocNumber)

\* C11: every UploadRow handed to the matching engine has a non-empty order
\* number or a non-empty tracking number; rows with neither were dropped by the
\* parser.
C11_RowsHaveIdentifier ==
  MergeDone => \A x \in 1..Len(AllMergeRows) : HasIdentifier(AllMergeRows[x])

\* A UPS row with no tracking number and no document number was parsed into an
\* UploadRow and handed to the merge, which gave it no result.
C11_Witness ==
  /\ MergeDone
  /\ \E x \in 1..Len(upsRows) : ~HasIdentifier(upsRows[x])
  /\ Len(mergeDetails) < Len(AllMergeRows)

\* The position in file f of its n-th row that carries an identifier.
NthUsable(f, n) ==
  CHOOSE p \in UsableRows(f) : Cardinality({q \in UsableRows(f) : q <= p}) = n

\* The 1-based position, in the file it was uploaded in, of the row behind the
\* n-th result: the PO file's rows come before the SO file's.
FilePositionOf(n) ==
  IF variant = "single" THEN NthUsable(form.file, n)
  ELSE IF n <= Cardinality(UsableRows(form.poFile)) THEN NthUsable(form.poFile, n)
  ELSE NthUsable(form.soFile, n - Cardinality(UsableRows(form.poFile)))

\* C12: the row number of a result is the 1-based position of its row in the
\* uploaded file, also when earlier rows of the file were dropped, and the
\* results come in the order of the rows.
C12_RowIsFilePosition ==
  response.status = 200 =>
    /\ \A n \in 1..Len(response.details) :
         response.details[n].row = FilePositionOf(n)
    /\ \A n, m \in 1..Len(response.details) :
         (n < m /\ (variant = "single" \/ rows[n].sourceMode = rows[m].sourceMode))
           => FilePositionOf(n) < FilePositionOf(m)

\* The first row of the file had no identifier and was dropped; the result of
\* the second row is numbered 1.
C12_Witness ==
  /\ response.status = 200
  /\ variant = "single"
  /\ Len(form.file.rows) = 2
  /\ UsableRows(form.file) = {2}
  /\ response.details[1].row = 1

\* The code unit of a character of a normalized date.
CodeUnit(c) ==
  CASE c = "-" -> 45
    [] c = "0" -> 48
    [] c = "1" -> 49
    [] c = "2" -> 50
    [] c = "3" -> 51
    [] c = "4" -> 52
    [] c = "5" -> 53
    [] c = "6" -> 54
    [] c = "7" -> 55
    [] c = "8" -> 56
    [] c = "9" -> 57

\* a comes before b in lexicographic order; the empty string comes first.
RECURSIVE LexLess(_, _)
LexLess(a, b) ==
  IF b = <<>> THEN FALSE
  ELSE IF a = <<>> THEN TRUE
  ELSE IF CodeUnit(Head(a)) # CodeUnit(Head(b))
    THEN CodeUnit(Head(a)) < CodeUnit(Head(b))
  ELSE LexLess(Tail(a), Tail(b))

\* The rows parsed from the file of one source.
FileRows(mode) ==
  IF mode = "PO" THEN poRows ELSE IF mode = "ShipDocs" THEN shipRows ELSE upsRows

\* The rows of one source in the group of tracking number k, in input order.
GroupSeq(k, mode) ==
  SelectSeq(FileRows(mode), LAMBDA r : NormTracking(r.tracking) = k)

\* The source that wins the group of k: PO over ShipDocs over UPS.
WinningSource(k) ==
  IF GroupSeq(k, "PO") # <<>> THEN "PO"
  ELSE IF GroupSeq(k, "ShipDocs") # <<>> THEN "ShipDocs"
  ELSE "UPS"

\* The date string a row is ordered by: the empty string when it has no date.
DateKey(r) == IF r.date = Null THEN <<>> ELSE r.date

\* The representative of the rows g of the winning source: the first, in input
\* order, of those with the smallest date string.
Representative(g) ==
  g[CHOOSE x \in 1..Len(g) :
      /\ \A y \in 1..Len(g) : ~LexLess(DateKey(g[y]), DateKey(g[x]))
      /\ \A y \in 1..(x - 1) : LexLess(DateKey(g[x]), DateKey(g[y]))]

\* The earliest date among the dated rows of g; Null when no row has a date.
EarliestDate(g) ==
  LET dated == {x \in 1..Len(g) : g[x].date # Null /\ g[x].date # <<>>}
  IN IF dated = {} THEN Null
     ELSE g[CHOOSE x \in dated : \A y \in dated : ~LexLess(g[y].date, g[x].date)].date

\* The date a group borrows: from its UPS rows first, then from its ShipDocs
\* rows, and only from sources below the winning one.
BorrowedDate(k) ==
  LET fromUps == EarliestDate(GroupSeq(k, "UPS"))
      fromShip == EarliestDate(GroupSeq(k, "ShipDocs"))
  IN IF WinningSource(k) = "PO"
       THEN (IF fromUps # Null THEN fromUps ELSE fromShip)
     ELSE IF WinningSource(k) = "ShipDocs" THEN fromUps
     ELSE Null

VerdictOf(source) ==
  CASE source = "PO" -> "MATCH_PO"
    [] source = "ShipDocs" -> "MATCH_SHIPDOCS"
    [] source = "UPS" -> "UNMATCHED_UPS"

\* C13: the date shown for a group is the date of the winning row when it has
\* one, and otherwise the earliest date among the group's UPS rows, or failing
\* that among its ShipDocs rows, lower-precedence sources only; the verdict is
\* that of the winning source whether or not a date was borrowed.
C13_DisplayDate ==
  MergeDone =>
    \A j \in 1..Len(mergeDetails) :
      LET k == mergeDetails[j].trackingUpload
          own == Representative(GroupSeq(k, WinningSource(k))).date
      IN /\ mergeDetails[j].verdict = VerdictOf(WinningSource(k))
         /\ mergeDetails[j].assertedDate =
              (IF Truthy(own) THEN own ELSE BorrowedDate(k))

\* A PO row without a date shares its tracking number with UPS rows dated
\* 2024-01-07 and 2024-01-05, in that order; the result shows 2024-01-07.
C13_Witness ==
  /\ MergeDone
  /\ \E j \in 1..Len(mergeDetails) :
       LET k == mergeDetails[j].trackingUpload
       IN /\ WinningSource(k) = "PO"
          /\ Representative(GroupSeq(k, "PO")).date = Null
          /\ EarliestDate(GroupSeq(k, "UPS")) = Date0105
          /\ mergeDetails[j].assertedDate = Date0107
          /\ mergeDetails[j].verdict = "MATCH_PO"

LowerSourceNumbers(k) ==
  { GroupSeq(k, "ShipDocs")[x].shipDocNumber : x \in 1..Len(GroupSeq(k, "ShipDocs")) }
    \cup { GroupSeq(k, "UPS")[x].shipDocNumber : x \in 1..Len(GroupSeq(k, "UPS")) }

VerifyVerdicts == {"OK", "MISMATCH", "NOT_FOUND", "ERROR"}

\* The count a summary holds for verdict v: 0 when it has no entry for v.
CountIn(summary, v) == IF v \in DOMAIN summary THEN summary[v] ELSE 0

\* The number of results with final verdict v.
ResultsWith(dets, v) == Cardinality({n \in 1..Len(dets) : dets[n].verdict = v})

\* C16: the summary of a response holds, for each verdict, the number of results
\* with that final verdict, ERROR included; the counts add up to the number of
\* results; and the summary reports that number as totalRowsReturned.
C16_SummaryCounts ==
  response.status = 200 =>
    /\ DOMAIN response.summary \subseteq VerifyVerdicts \cup {"totalRowsReturned"}
    /\ \A v \in VerifyVerdicts :
         CountIn(response.summary, v) = ResultsWith(response.details, v)
    /\ CountIn(response.summary, "OK") + CountIn(response.summary, "MISMATCH")
         + CountIn(response.summary, "NOT_FOUND") + CountIn(response.summary, "ERROR")
         = Len(response.details)
    /\ "totalRowsReturned" \in DOMAIN response.summary
    /\ response.summary["totalRowsReturned"] = Len(response.details)

\* A response of the verification handler with two results, one of them ERROR:
\* the per-verdict counts are right and the summary has no totalRowsReturned.
C16_Witness ==
  /\ response.status = 200
  /\ Len(response.details) = 2
  /\ ResultsWith(response.details, "ERROR") = 1
  /\ \A v \in VerifyVerdicts :
       CountIn(response.summary, v) = ResultsWith(response.details, v)
  /\ "totalRowsReturned" \notin DOMAIN response.summary

\* C18: a lookup that is never answered does not hang the row: until the request
\* has its response the handler can always take its next step.
C18_NoHang == vpc = "done" \/ ENABLED VerifyNext

\* getOrder was called for a row and never answered: the handler waits, with no
\* result for the row and no response.
C18_Witness ==
  /\ vpc = "waiting"
  /\ calls # <<>>
  /\ calls[Len(calls)].fn = "getOrder"
  /\ Len(details) < Len(rows)
  /\ response = NoResponse
  /\ ~ENABLED VerifyNext

NoPayload ==
  IF variant = "single" THEN form.file = NoFile
  ELSE form.poFile = NoFile /\ form.soFile = NoFile

\* A supplied file the parser throws on: one it cannot read, or one with rows of
\* which none carries an identifier.
FailsToParse(f) ==
  \/ f.kind = "unreadable"
  \/ (f.kind = "sheet" /\ f.rows # <<>> /\ UsableRows(f) = {})

\* A success: the summary and one result for every parsed row.
IsFullSuccess(resp) ==
  /\ resp.status = 200
  /\ DOMAIN resp = {"status", "summary", "details"}
  /\ Len(resp.details) = Len(rows)

\* A failure of the whole request: a message, no summary, no results.
IsBareFailure(resp, statuses) ==
  /\ resp.status \in statuses
  /\ DOMAIN resp = {"status", "text"}

C20_DateNeverNull ==
  MergeDone =>
    \A j \in 1..Len(mergeResponse.details) :
      /\ mergeResponse.details[j].assertedDate # Null
      /\ mergeResponse.details[j].assertedDate \in {<<>>, Date0105, Date0107}

\* A UPS-only group without any date: its result has assertedDate null.
C20_Witness ==
  /\ MergeDone
  /\ \E j \in 1..Len(mergeResponse.details) :
       /\ mergeResponse.details[j].verdict = "UNMATCHED_UPS"
       /\ mergeResponse.details[j].assertedDate = Null

\* ------------------------------------------------------------------------
\* Claims on the verification handler: normalization, lookups, ordering
\* ------------------------------------------------------------------------

\* Only upper-case letters and digits.
IsUpperAlnum(s) == \A n \in 1..Len(s) : s[n] \in UpperLetters \cup Digits

\* C21: every tracking number held in a parsed row, and every tracking number
\* passed to findByTracking, consists only of upper-case letters and digits.
C21_TrackingAlnumUpper ==
  /\ \A n \in 1..Len(rows) :
       Truthy(rows[n].trackingNumber) => IsUpperAlnum(rows[n].trackingNumber)
  /\ \A n \in 1..Len(calls) :
       calls[n].fn = "findByTracking" => IsUpperAlnum(calls[n].key)

\* The cell "1z -.9": the parsed row holds "1Z -.9", and findByTracking is
\* called with "1Z.9".
C21_Witness ==
  /\ \E n \in 1..Len(rows) :
       rows[n].trackingNumber = <<"1", "Z", " ", "-", ".", "9">>
  /\ \E n \in 1..Len(calls) :
       /\ calls[n].fn = "findByTracking"
       /\ calls[n].key = <<"1", "Z", ".", "9">>

\* C22: for a row with a tracking number and no order number, orderExists passed
\* to decide is true exactly when the package list passed with it is not empty,
\* and a rejected search gives orderExists = false and no packages.
C22_OrderExistsIffPackages ==
  \A n \in 1..Len(decided) :
    ~Truthy(rows[i].orderNumber) =>
      /\ decided[n].orderExists <=> Len(decided[n].packages) > 0
      /\ decided[n].mode \in failedModes =>
           ~decided[n].orderExists /\ decided[n].packages = <<>>
      /\ \E m \in 1..Len(calls) :
           calls[m].fn = "findByTracking" /\ calls[m].mode = decided[n].mode

\* A tracking-only row whose first search returned a package and whose second
\* search was rejected.
C22_Witness ==
  /\ vpc = "pick"
  /\ ~Truthy(rows[i].orderNumber)
  /\ Len(decided) = 2
  /\ decided[1].orderExists /\ Len(decided[1].packages) = 1
  /\ decided[2].mode \in failedModes
  /\ ~decided[2].orderExists /\ decided[2].packages = <<>>

\* The spreadsheet row behind the n-th parsed row.
RawRowOf(n) ==
  IF variant = "single" THEN form.file.rows[FilePositionOf(n)]
  ELSE IF n <= Cardinality(UsableRows(form.poFile))
    THEN form.poFile.rows[FilePositionOf(n)]
  ELSE form.soFile.rows[FilePositionOf(n)]

\* A date cell with text that is no date.
Unparsable(cell) == HasText(cell) /\ cell \notin {Iso0201, Iso0203}

\* C23: a date cell that cannot be parsed gives assertedDate = null and no
\* error: the row is reconciled like any other, its result reports an empty
\* assertedDate and no day difference, and it has verdict ERROR only when a
\* lookup of the row threw.
C23_UnparsableDateIsNoError ==
  \A n \in 1..Len(rows) :
    Unparsable(RawRowOf(n).date) =>
      /\ rows[n].assertedDate = NoDate
      /\ response.status = 200 => n <= Len(response.details)
      /\ n <= Len(details) =>
           /\ details[n].assertedDate = <<>>
           /\ IF details[n].verdict = "ERROR"
                THEN \E t \in 1..Len(thrown) :
                       thrown[t].row = n /\ thrown[t].message = NotIterable
              ELSE /\ details[n].verdict \in {"OK", "MISMATCH", "NOT_FOUND"}
                   /\ details[n].dayDelta = NoDayDelta

\* A finished request with a row whose date cell is "n/a": its result has a
\* verdict from the decision function and an empty assertedDate.
C23_Witness ==
  /\ response.status = 200
  /\ \E n \in 1..Len(response.details) :
       /\ RawRowOf(n).date = NotADate
       /\ response.details[n].assertedDate = <<>>
       /\ response.details[n].verdict = "MISMATCH"

\* ------------------------------------------------------------------------
\* Claims on the cross-file handler from its form on (SpecUpload)
\* ------------------------------------------------------------------------

\* The rows the handler holds for one role.
RowsOfRole(m) ==
  CASE m = "PO" -> poRows
    [] m = "ShipDocs" -> shipRows
    [] m = "UPS" -> upsRows

\* The rows held for role m are all the rows of its file, none if the form had
\* no file for it.
FullyParsed(m) ==
  /\ Len(RowsOfRole(m)) = UploadRowCount(uploads[m])
  /\ \A k \in 1..Len(RowsOfRole(m)) :
       /\ RowsOfRole(m)[k].row = k
       /\ RowsOfRole(m)[k].sourceMode = m
       /\ RowsOfRole(m)[k].tracking = uploads[m].cells[k][1]
       /\ RowsOfRole(m)[k].date = uploads[m].cells[k][2]

\* C24: grouping and precedence resolution start only after the parsing of all
\* supplied files has completed, each with its rows or resolved to an empty
\* list; no merge result is computed from a partially parsed set of files.
C24_MergeAfterAllParsed ==
  /\ mergePc \in {"parsed", "reconciled"} =>
       /\ settled = Sources
       /\ \A m \in Sources : uploads[m] # BadFile /\ FullyParsed(m)
  /\ mergePc # "reconciled" =>
       mergeDetails = <<>> /\ "details" \notin DOMAIN mergeResponse
  /\ mergePc = "reconciled" =>
       mergeResponse.details = reconcileByTrackingPreferPO(poRows, shipRows, upsRows)

\* A merged request with rows in two files and no third file, and a request on
\* which the merge waits for the last file while two are parsed.
C24_Witness ==
  /\ mergePc = "reconciled"
  /\ uploads["ShipDocs"] = NoFile
  /\ Len(poRows) = 1 /\ Len(upsRows) = 1
  /\ Len(mergeResponse.details) >= 1

\* The merge waits: two promises are fulfilled, the third file is not yet
\* parsed, and nothing has been merged.
C24_Waiting ==
  /\ mergePc = "parsing"
  /\ Cardinality(settled) = 2
  /\ \E m \in Sources \ settled : UploadRowCount(uploads[m]) >= 1
  /\ ~ENABLED Reconcile

\* ------------------------------------------------------------------------
\* Claims on the verification handler: results once emitted, ordering, lookups
\* ------------------------------------------------------------------------

\* C25: a result is appended to details with its verdict, and no later step of
\* the request (later rows, the catch block of a row, the response) changes
\* the verdict, reason or dayDelta of a result already in details; the
\* response carries details as they stand.
C25_VerdictSetOnce ==
  [][ /\ Len(details) <= Len(details')
      /\ Len(details') <= Len(details) + 1
      /\ \A n \in 1..Len(details) : details'[n] = details[n]
      /\ \A n \in (Len(details) + 1)..Len(details') :
           details'[n].verdict \in VerifyVerdicts
      /\ response'.status = 200 => response'.details = details ]_vars

\* A response whose first result was emitted before a later row ended in the
\* catch block.
C25_Witness ==
  /\ response.status = 200
  /\ Len(response.details) = 2
  /\ response.details[1].verdict = "OK"
  /\ response.details[2].verdict = "ERROR"

\* C26: the details of a response are in input row order, the rows of the PO
\* file before those of the SO file and each file in its own row order,
\* whatever the truth source answered to the lookups of each row.
C26_DetailsInRowOrder ==
  response.status = 200 =>
    /\ Len(response.details) = UsableRowCount
    /\ \A n \in 1..Len(response.details) :
         /\ response.details[n].row = n
         /\ (response.details[n].orderNumber # <<>>) = HasText(RawRowOf(n).order)
         /\ (response.details[n].trackingUpload # <<>>) = HasText(RawRowOf(n).tracking)
         /\ variant = "dual" =>
              response.details[n].sourceMode =
                (IF n <= Cardinality(UsableRows(form.poFile)) THEN "PO" ELSE "SO")
    /\ \A n, m \in 1..Len(response.details) :
         (n < m /\ (variant = "single" \/ rows[n].sourceMode = rows[m].sourceMode))
           => FilePositionOf(n) < FilePositionOf(m)

\* A two-file response: the PO file's tracking row, whose searches found
\* nothing, comes before the SO file's order row, which was verified.
C26_Witness ==
  /\ response.status = 200
  /\ variant = "dual"
  /\ Len(response.details) = 2
  /\ response.details[1].sourceMode = "PO"
  /\ response.details[1].orderNumber = <<>>
  /\ response.details[1].verdict = "NOT_FOUND"
  /\ response.details[2].sourceMode = "SO"
  /\ response.details[2].orderNumber # <<>>
  /\ response.details[2].verdict = "OK"

\* The larger of two ranks.
MaxRank(a, b) == IF a >= b THEN a ELSE b

\* C27: in a result pushed by the try block, verdict, reason, dayDelta and
\* chosenMode are those of one of the two interpretations of the row, poVerdict
\* is the verdict of the PO interpretation and soVerdict that of the SO
\* interpretation whichever ran first, and the rank of the verdict is the
\* larger of the two ranks.
C27_ResultOfOneInterpretation ==
  [][ (vpc = "pick" /\ Len(details') = Len(details) + 1) =>
        LET d == details'[Len(details')]
        IN /\ {resPref.mode, resOther.mode} = {"PO", "SO"}
           /\ resPref.mode = decided[1].mode /\ resOther.mode = decided[2].mode
           /\ d.poVerdict = ResultIn("PO").verdict
           /\ d.soVerdict = ResultIn("SO").verdict
           /\ \E r \in {resPref, resOther} :
                /\ d.chosenMode = r.mode
                /\ d.verdict = r.verdict
                /\ d.reason = r.reason
                /\ d.dayDelta = r.dayDelta
           /\ d.verdict \in {d.poVerdict, d.soVerdict}
           /\ DocumentedRank(d.verdict) =
                MaxRank(DocumentedRank(d.poVerdict), DocumentedRank(d.soVerdict)) ]_vars

\* The result of a row of the SO file: the SO interpretation ran first and
\* found nothing, the PO interpretation was verified and was chosen.
C27_Witness ==
  \E n \in 1..Len(details) :
    /\ details[n].sourceMode = "SO"
    /\ details[n].chosenMode = "PO"
    /\ details[n].verdict = "OK"
    /\ details[n].reason = "PO verified"
    /\ details[n].poVerdict = "OK"
    /\ details[n].soVerdict = "NOT_FOUND"

\* The lookups in cs issued for the interpretation in mode m.
CallsIn(cs, m) == SelectSeq(cs, LAMBDA c : c.mode = m)

\* The lookups cs of the row r under way follow the protocol of reconcileOne.
FollowsProtocol(cs, r) ==
  \A m \in {"PO", "SO"} :
    /\ Len(CallsIn(cs, m)) <= 2
    /\ IF Truthy(r.orderNumber)
         THEN /\ \A k \in 1..Len(CallsIn(cs, m)) :
                   /\ CallsIn(cs, m)[k].fn # "findByTracking"
                   /\ CallsIn(cs, m)[k].fn = (IF k = 1 THEN "getOrder" ELSE "getActivity")
                   /\ CallsIn(cs, m)[k].key = r.orderNumber
       ELSE /\ Len(CallsIn(cs, m)) <= 1
            /\ \A k \in 1..Len(CallsIn(cs, m)) :
                 CallsIn(cs, m)[k].fn = "findByTracking"

\* C28: for a row with an order number each interpretation calls getOrder
\* first, calls getActivity only after getOrder returned an order, and never
\* calls findByTracking, also when the row has a tracking number; for a row
\* with only a tracking number findByTracking is the only lookup; an
\* interpretation issues at most two lookups.
C28_LookupProtocol ==
  [][ /\ calls' # <<>> => FollowsProtocol(calls', rows[i])
      /\ (Len(calls') = Len(calls) + 1 /\ calls'[Len(calls')].fn = "getActivity") =>
           /\ orderExists
           /\ calls # <<>>
           /\ calls[Len(calls)].fn = "getOrder"
           /\ calls[Len(calls)].mode = calls'[Len(calls')].mode ]_vars

\* A row with an order number and a tracking number, both interpretations
\* evaluated: getOrder and getActivity for the one, then for the other.
C28_Witness ==
  /\ vpc = "pick"
  /\ Truthy(rows[i].orderNumber)
  /\ Truthy(rows[i].trackingNumber)
  /\ Len(calls) = 4
  /\ calls[1].fn = "getOrder" /\ calls[2].fn = "getActivity"
  /\ calls[3].fn = "getOrder" /\ calls[4].fn = "getActivity"

\* C29: at most one lookup is unanswered at any moment; the lookups of the
\* other interpretation of a row are sent only after the preferred
\* interpretation has returned, and no lookup of a row is sent before the
\* result of every earlier row is in details.
C29_OneLookupAtATime ==
  [][ /\ Len(pending') <= 1
      /\ Len(calls') = Len(calls) + 1 =>
           /\ pending = <<>>
           /\ pending'[1].row = i
           /\ Len(details) = i - 1
           /\ IF pending'[1].mode = Prefer(rows[i])
                THEN decided = <<>> /\ resPref = NoResult
              ELSE /\ Len(decided) = 1
                   /\ decided[1].mode = Prefer(rows[i])
                   /\ resPref.mode = Prefer(rows[i]) ]_vars

\* The second row's cross-check is awaited: the first row's result is in
\* details and the preferred interpretation of the second row has returned.
C29_Witness ==
  /\ Len(pending) = 1
  /\ pending[1].row = 2
  /\ pending[1].mode = Other(Prefer(rows[2]))
  /\ Len(details) = 1
  /\ Len(decided) = 1

\* ------------------------------------------------------------------------
\* Claims on the upload page (SpecPage)
\* ------------------------------------------------------------------------

\* C30: once submit() has run and is over, on whatever path (a successful
\* response, a non-OK response, a rejected fetch, a body that cannot be
\* decoded), busy is false again and exactly one of result and err is set.
C30_BusyReleased ==
  (upc = "idle" /\ submits > 0) =>
    /\ ~busy
    /\ (result # Null) # (pageErr # Null)

\* submit() ended by a rejected promise: busy is still true, neither result
\* nor err is set, and the button stays disabled although a file is chosen.
C30_Witness ==
  /\ upc = "idle"
  /\ last = "threw"
  /\ busy
  /\ result = Null
  /\ pageErr = Null
  /\ picked # {}
  /\ ~ButtonEnabled

\* Where submit() does not throw, the claim holds.
C30_HoldsWithoutThrow ==
  (upc = "idle" /\ last \in {"ok", "notOk"}) =>
    /\ ~busy
    /\ (result # Null) # (pageErr # Null)

====
